---- MODULE Spec2Model ----
(***************************************************************************)
(* A model of the replication core of WhispMesh.                           *)
(*                                                                         *)
(* COPS (src/src/cops.rs): the handlers of Replica and Client, the         *)
(* versions (OrdinaryVersion) and the version service, modelled the same   *)
(* way; their state is in the cops_ variables.                             *)
(*                                                                         *)
(* PBFT (src/src/pbft/mod.rs): every event handler of Replica and Client   *)
(* is an operator from the component's state and the event to the new      *)
(* state and the effects of the handler (messages sent, crypto tasks       *)
(* submitted, upcalls); an action applies one handler to one event and     *)
(* moves the effects into the network, the crypto worker and the upcall    *)
(* history.                                                                *)
(***************************************************************************)
EXTENDS Bags, FiniteSets, Integers, Sequences, TLC

(***************************************************************************)
(* Bounds of the model.                                                    *)
(***************************************************************************)
\* the largest seq a client reaches (number of invocations per client)
MaxSeq == 2
\* how often the resend timer of one client may fire
MaxResend == 1
\* how many messages the environment of one replica may send it
MaxInject == 5
\* how many Replies the environment of one client may send it
MaxReply == 4
\* the slots the environment of one replica proposes and votes for
MaxSlot == 1
\* how many ops each of two concurrent clients invokes
MaxInvoke == 1
\* how many Requests the client of the primary with a backlog sends: two more
\* than one batch holds
MaxBacklog == 102
\* the KeyIds of the COPS stores
Keys == {1, 2}

(***************************************************************************)
(* Program constants.                                                      *)
(***************************************************************************)
NUM_CONCURRENT_PRE_PREPARE == 1
\* close_batch drains at most this many pending requests into one batch
MaxBatch == 100

(***************************************************************************)
(* Option, maps (BTreeMap) and vectors.                                    *)
(***************************************************************************)
None == [none |-> TRUE]

EmptyMap == << >>

MapPut(m, k, v) == [x \in DOMAIN m \cup {k} |-> IF x = k THEN v ELSE m[x]]

MapRemove(m, k) == [x \in DOMAIN m \ {k} |-> m[x]]

MapRetainNone(m, digest) == << >>

\* BTreeMap::retain(|_, vote| vote.digest == digest)
MapRetain(m, digest) == [x \in {y \in DOMAIN m : m[y].plain.digest = digest} |-> m[x]]

MapLen(m) == Cardinality(DOMAIN m)

\* BTreeMap::into_iter().collect(): the (key, value) pairs in ascending key order
MapIntoVec(m) ==
    LET ks == DOMAIN m
        rank(k) == Cardinality({j \in ks : j < k}) + 1
    IN  [i \in 1..Cardinality(ks) |->
            LET k == CHOOSE k \in ks : rank(k) = i IN <<k, m[k]>>]

Min(a, b) == IF a < b THEN a ELSE b

\* the replica_ids of a Vec<(u8, Verifiable<T>)>
VecIds(v) == {v[i][1] : i \in DOMAIN v}

(***************************************************************************)
(* Crypto (crate::crypto is outside src/; only its contract is modelled):  *)
(* a digest is collision free, a signature names the key that made it and  *)
(* verifies only against that key.                                         *)
(***************************************************************************)
Sha256(requests) == [sha256 |-> requests]

Sign(id, plain) == [plain |-> plain, signer |-> id]

Verify(id, verifiable) == verifiable.signer = id

(***************************************************************************)
(* The application (crate::app is outside src/): it keeps the ops it has   *)
(* executed, and the result of an op tells the op and its position.        *)
(***************************************************************************)
AppInit == << >>

AppExecute(app, op) ==
    [app |-> Append(app, op), result |-> [op |-> op, at |-> Len(app) + 1]]

(***************************************************************************)
(* Messages.                                                               *)
(***************************************************************************)
Request(client_id, client_addr, seq, op) ==
    [client_id |-> client_id, client_addr |-> client_addr, seq |-> seq, op |-> op]

PrePrepare(view_num, op_num, digest) ==
    [view_num |-> view_num, op_num |-> op_num, digest |-> digest]

Prepare(view_num, op_num, digest, replica_id) ==
    [view_num |-> view_num, op_num |-> op_num, digest |-> digest,
     replica_id |-> replica_id]

Commit(view_num, op_num, digest, replica_id) ==
    [view_num |-> view_num, op_num |-> op_num, digest |-> digest,
     replica_id |-> replica_id]

Reply(seq, result, view_num, replica_id) ==
    [seq |-> seq, result |-> result, view_num |-> view_num, replica_id |-> replica_id]

\* ToReplica on the wire, addressed to one replica
ToReplica(dest, kind, msg, requests) ==
    [dest |-> dest, kind |-> kind, msg |-> msg, requests |-> requests]

\* ToClient on the wire, addressed to one client address
ToClient(dest, reply) == [dest |-> dest, reply |-> reply]

\* a unit of work of the crypto worker
Work(kind, msg, requests) == [kind |-> kind, msg |-> msg, requests |-> requests]

(***************************************************************************)
(* PBFT replica.                                                           *)
(***************************************************************************)
LogEntryDefault ==
    [view_num |-> 0, pre_prepare |-> None, requests |-> << >>,
     prepares |-> << >>, commits |-> << >>]

\* Replica::new; panic = "" while the replica runs, else what aborted it
ReplicaNew(id, num_replica, num_faulty) ==
    [id |-> id, num_replica |-> num_replica, num_faulty |-> num_faulty,
     replies |-> EmptyMap, requests |-> << >>, view_num |-> 0, op_num |-> 0,
     log |-> EmptyMap, prepare_quorums |-> EmptyMap, commit_quorums |-> EmptyMap,
     commit_num |-> 0, app |-> AppInit,
     pending_prepares |-> EmptyMap, pending_commits |-> EmptyMap,
     panic |-> ""]

\* the effects of a handler that has done nothing yet
\* (net and cn in sending order, cw the work submitted to the crypto worker)
Ctx(s) == [s |-> s, net |-> << >>, cw |-> EmptyBag, cn |-> << >>]

Panic(c, why) == [c EXCEPT !.s.panic = why]

\* Vec::resize_with(new_len, Default::default), called only to grow the log
LogResize(log, new_len) ==
    [i \in 0..(new_len - 1) |-> IF i \in DOMAIN log THEN log[i] ELSE LogEntryDefault]

\* net.send(All, message): every peer but the sender, by ascending index
SendAll(s, kind, msg, requests) ==
    LET peers == SelectSeq([i \in 1..s.num_replica |-> i - 1], LAMBDA d : d # s.id)
    IN  [i \in DOMAIN peers |-> ToReplica(peers[i], kind, msg, requests)]

is_primary(s) == (s.id % s.num_replica) = s.view_num

close_batch(c) ==
    IF ~is_primary(c.s) THEN Panic(c, "assert is_primary")
    ELSE IF c.s.requests = << >> THEN Panic(c, "assert requests not empty")
    ELSE
        LET n == Min(Len(c.s.requests), MaxBatch)
            requests == SubSeq(c.s.requests, 1, n)
            op_num == c.s.op_num + 1
            pre_prepare == PrePrepare(c.s.view_num, op_num, Sha256(requests))
        IN  [c EXCEPT !.s.op_num = op_num,
                      !.s.requests = SubSeq(@, n + 1, Len(@)),
                      !.cw = @ (+) SetToBag({Work("SignPrePrepare", pre_prepare, requests)})]

\* OnEvent<Recv<Request>> for a request that is no duplicate
on_new_request(s, request) ==
    IF ~is_primary(s) THEN Panic(Ctx(s), "todo forward request")
    ELSE
        LET s1 == [s EXCEPT
                     !.replies = MapPut(@, request.client_id,
                                        [seq |-> request.seq, reply |-> None]),
                     !.requests = Append(@, request)]
        IN  IF s1.op_num < s1.commit_num + NUM_CONCURRENT_PRE_PREPARE
            THEN close_batch(Ctx(s1))
            ELSE Ctx(s1)

\* a variant of on_recv_request that answers no duplicate
on_recv_request_silent(s, request) ==
    LET cid == request.client_id
    IN  IF cid \in DOMAIN s.replies /\ s.replies[cid].seq >= request.seq
        THEN Ctx(s)
        ELSE on_new_request(s, request)

seq_is_cached_never(s, request) == FALSE

\* Some((seq, reply)) if *seq == request.seq
seq_is_cached(s, request) == s.replies[request.client_id].seq = request.seq

on_recv_request(s, request) ==
    LET cid == request.client_id
        known == cid \in DOMAIN s.replies
    IN  IF known /\ s.replies[cid].seq > request.seq THEN Ctx(s)
        ELSE IF known /\ seq_is_cached(s, request) THEN
            IF s.replies[cid].reply # None
            THEN [Ctx(s) EXCEPT !.cn =
                    <<ToClient(request.client_addr, s.replies[cid].reply)>>]
            ELSE Ctx(s)
        ELSE on_new_request(s, request)

on_signed_pre_prepare(s, pre_prepare, requests) ==
    LET op_num == pre_prepare.plain.op_num IN
    IF pre_prepare.plain.view_num # s.view_num THEN Ctx(s)
    ELSE
        LET log1 == IF op_num \notin DOMAIN s.log
                    THEN LogResize(s.log, op_num + 1) ELSE s.log
            s1 == [s EXCEPT !.log = [log1 EXCEPT ![op_num].pre_prepare = pre_prepare]]
        IN  IF log1[op_num].pre_prepare # None
            THEN Panic(Ctx(s1), "assert replaced is none")
            ELSE [Ctx([s1 EXCEPT !.log[op_num].view_num = s.view_num,
                                 !.log[op_num].requests = requests])
                    EXCEPT !.net = SendAll(s, "PrePrepare", pre_prepare, requests)]

on_recv_pre_prepare(s, pre_prepare, requests) ==
    LET op_num == pre_prepare.plain.op_num IN
    IF pre_prepare.plain.view_num # s.view_num THEN
        IF pre_prepare.plain.view_num > s.view_num
        THEN Panic(Ctx(s), "todo state transfer to enter view")
        ELSE Ctx(s)
    ELSE IF op_num \in DOMAIN s.log /\ s.log[op_num].pre_prepare # None THEN Ctx(s)
    ELSE [Ctx(s) EXCEPT !.cw = SetToBag({Work("VerifyPrePrepare", pre_prepare, requests)})]

\* a variant of pre_prepare_is_some that finds every slot free
pre_prepare_is_some_never(log, op_num) == FALSE

\* the guard of OnEvent<(Verified<PrePrepare>, Vec<Request>)>: the slot holds
\* a pre-prepare already
pre_prepare_is_some(log, op_num) == log[op_num].pre_prepare # None

on_verified_pre_prepare(s, pre_prepare, requests) ==
    LET op_num == pre_prepare.plain.op_num
        digest == pre_prepare.plain.digest
    IN
    IF pre_prepare.plain.view_num # s.view_num THEN Ctx(s)
    ELSE
        LET log1 == IF op_num \notin DOMAIN s.log
                    THEN LogResize(s.log, op_num + 1) ELSE s.log
        IN  IF pre_prepare_is_some(log1, op_num) THEN Ctx([s EXCEPT !.log = log1])
            ELSE
                LET prepare == Prepare(s.view_num, op_num, digest, s.id)
                    s1 == [s EXCEPT
                        !.log = [log1 EXCEPT ![op_num].pre_prepare = pre_prepare,
                                             ![op_num].view_num = s.view_num,
                                             ![op_num].requests = requests],
                        !.prepare_quorums =
                            IF op_num \in DOMAIN @
                            THEN [@ EXCEPT ![op_num] =
                                    MapRetain(@, digest)]
                            ELSE @,
                        !.commit_quorums =
                            IF op_num \in DOMAIN @
                            THEN [@ EXCEPT ![op_num] =
                                    MapRetain(@, digest)]
                            ELSE @]
                IN  [Ctx(s1) EXCEPT !.cw = SetToBag({Work("SignPrepare", prepare, << >>)})]

\* a variant of prepare_quorum_short that asks for one prepare less
prepare_quorum_short_by_one(s, prepare_quorum) ==
    MapLen(prepare_quorum) + 2 < s.num_replica - s.num_faulty

\* the quorum of insert_prepare is too small for the slot to become Prepared
prepare_quorum_short(s, prepare_quorum) ==
    MapLen(prepare_quorum) + 1 < s.num_replica - s.num_faulty

insert_prepare(c, prepare) ==
    LET op_num == prepare.plain.op_num
        quorum0 == IF op_num \in DOMAIN c.s.prepare_quorums
                   THEN c.s.prepare_quorums[op_num] ELSE EmptyMap
        prepare_quorum == MapPut(quorum0, prepare.plain.replica_id, prepare)
        c1 == [c EXCEPT !.s.prepare_quorums = MapPut(@, op_num, prepare_quorum)]
    IN  IF prepare_quorum_short(c.s, prepare_quorum) THEN c1
        ELSE IF op_num \notin DOMAIN c.s.log THEN c1
        ELSE IF c.s.log[op_num].prepares # << >>
        THEN Panic(c1, "assert prepares is empty")
        ELSE
            LET commit == Commit(c.s.view_num, op_num, prepare.plain.digest, c.s.id)
            IN  [c1 EXCEPT !.s.log[op_num].prepares = MapIntoVec(prepare_quorum),
                           !.s.prepare_quorums = MapRemove(@, op_num),
                           !.cw = @ (+) SetToBag({Work("SignCommit", commit, << >>)})]

on_signed_prepare(s, prepare) ==
    IF prepare.plain.view_num # s.view_num THEN Ctx(s)
    ELSE
        LET c == [Ctx(s) EXCEPT !.net = SendAll(s, "Prepare", prepare, << >>)]
        IN  IF prepare.plain.op_num \notin DOMAIN s.log
            THEN Panic(c, "index out of bounds")
            ELSE IF s.log[prepare.plain.op_num].prepares = << >>
            THEN insert_prepare(c, prepare)
            ELSE c

\* the context after the call and the bool the call returns
submit_prepare(c, prepare) ==
    LET op_num == prepare.plain.op_num IN
    IF prepare.plain.view_num # c.s.view_num THEN
        IF prepare.plain.view_num > c.s.view_num
        THEN [c |-> Panic(c, "todo state transfer to enter view"), ok |-> FALSE]
        ELSE [c |-> c, ok |-> FALSE]
    ELSE IF op_num \in DOMAIN c.s.log /\ c.s.log[op_num].prepares # << >>
    THEN [c |-> c, ok |-> FALSE]
    ELSE IF /\ op_num \in DOMAIN c.s.log
            /\ c.s.log[op_num].pre_prepare # None
            /\ prepare.plain.digest # c.s.log[op_num].pre_prepare.plain.digest
    THEN [c |-> c, ok |-> FALSE]
    ELSE [c |-> [c EXCEPT !.cw = @ (+) SetToBag({Work("VerifyPrepare", prepare, << >>)})],
          ok |-> TRUE]

\* Recv<Prepare> without the check of pending_prepares: it submits whatever
\* it receives
on_recv_prepare_always_submits(s, prepare) ==
    LET op_num == prepare.plain.op_num
        r == submit_prepare(Ctx(s), prepare)
    IN  IF r.ok /\ r.c.s.panic = ""
        THEN [r.c EXCEPT !.s.pending_prepares = MapPut(@, op_num, << >>)]
        ELSE r.c

on_recv_prepare(s, prepare) ==
    LET op_num == prepare.plain.op_num IN
    IF op_num \in DOMAIN s.pending_prepares
    THEN Ctx([s EXCEPT !.pending_prepares[op_num] = Append(@, prepare)])
    ELSE
        LET r == submit_prepare(Ctx(s), prepare)
        IN  IF r.ok /\ r.c.s.panic = ""
            THEN [r.c EXCEPT !.s.pending_prepares = MapPut(@, op_num, << >>)]
            ELSE r.c

\* the loop of OnEvent<Verified<Prepare>>: submit the pending prepares, last
\* pushed first, until one is submitted or none is left
RECURSIVE pending_prepares_loop(_, _)
pending_prepares_loop(c, op_num) ==
    IF c.s.panic # "" THEN c
    ELSE IF op_num \notin DOMAIN c.s.pending_prepares THEN c
    ELSE
        LET pending == c.s.pending_prepares[op_num] IN
        IF pending = << >>
        THEN [c EXCEPT !.s.pending_prepares = MapRemove(@, op_num)]
        ELSE
            LET prepare == pending[Len(pending)]
                c1 == [c EXCEPT !.s.pending_prepares[op_num] =
                                    SubSeq(pending, 1, Len(pending) - 1)]
                r == submit_prepare(c1, prepare)
            IN  IF r.ok THEN r.c ELSE pending_prepares_loop(r.c, op_num)

on_verified_prepare(s, prepare) ==
    IF prepare.plain.view_num # s.view_num THEN Ctx(s)
    ELSE pending_prepares_loop(insert_prepare(Ctx(s), prepare), prepare.plain.op_num)

\* a variant of reply_is_newer that caches the reply of every executed request
reply_is_newer_or_not(s, request) == TRUE

\* insert_commit caches the reply unless a later seq of the client is cached
reply_is_newer(s, request) ==
    IF request.client_id \in DOMAIN s.replies
    THEN s.replies[request.client_id].seq <= request.seq
    ELSE TRUE

\* the execution loop of insert_commit over one slot's requests
RECURSIVE execute_requests(_, _, _)
execute_requests(c, requests, i) ==
    IF i > Len(requests) THEN c
    ELSE
        LET request == requests[i]
            done == AppExecute(c.s.app, request.op)
            reply == Reply(request.seq, done.result, c.s.view_num, c.s.id)
            cid == request.client_id
            newer == reply_is_newer(c.s, request)
            c1 == [c EXCEPT
                     !.s.app = done.app,
                     !.s.replies = IF newer
                                   THEN MapPut(@, cid, [seq |-> request.seq, reply |-> reply])
                                   ELSE @,
                     !.cn = Append(@, ToClient(request.client_addr, reply))]
        IN  execute_requests(c1, requests, i + 1)

\* while let Some(entry) = self.log.get(self.commit_num + 1)
RECURSIVE commit_loop(_)
commit_loop(c) ==
    LET next == c.s.commit_num + 1 IN
    IF next \notin DOMAIN c.s.log THEN c
    ELSE IF c.s.log[next].commits = << >> THEN c
    ELSE commit_loop(execute_requests([c EXCEPT !.s.commit_num = next],
                                      c.s.log[next].requests, 1))

\* while self.is_primary() && !self.requests.is_empty() && op_num <= commit_num + 1
RECURSIVE close_batch_loop(_)
close_batch_loop(c) ==
    IF /\ c.s.panic = ""
       /\ is_primary(c.s)
       /\ c.s.requests # << >>
       /\ c.s.op_num <= c.s.commit_num + NUM_CONCURRENT_PRE_PREPARE
    THEN close_batch_loop(close_batch(c))
    ELSE c

prepares_is_empty_never(entry) == FALSE

\* the guard of insert_commit: the slot is not Prepared
prepares_is_empty(entry) == entry.prepares = << >>

insert_commit(c, commit) ==
    LET op_num == commit.plain.op_num
        quorum0 == IF op_num \in DOMAIN c.s.commit_quorums
                   THEN c.s.commit_quorums[op_num] ELSE EmptyMap
        commit_quorum == MapPut(quorum0, commit.plain.replica_id, commit)
        c1 == [c EXCEPT !.s.commit_quorums = MapPut(@, op_num, commit_quorum)]
    IN  IF MapLen(commit_quorum) < c.s.num_replica - c.s.num_faulty THEN c1
        ELSE IF op_num \notin DOMAIN c.s.log THEN c1
        ELSE IF c.s.log[op_num].commits # << >>
        THEN Panic(c1, "assert commits is empty")
        ELSE IF prepares_is_empty(c.s.log[op_num]) THEN c1
        ELSE close_batch_loop(commit_loop(
                [c1 EXCEPT !.s.log[op_num].commits = MapIntoVec(commit_quorum),
                           !.s.commit_quorums = MapRemove(@, op_num)]))

on_signed_commit(s, commit) ==
    IF commit.plain.view_num # s.view_num THEN Ctx(s)
    ELSE
        LET c == [Ctx(s) EXCEPT !.net = SendAll(s, "Commit", commit, << >>)]
        IN  IF commit.plain.op_num \notin DOMAIN s.log
            THEN Panic(c, "index out of bounds")
            ELSE IF s.log[commit.plain.op_num].commits = << >>
            THEN insert_commit(c, commit)
            ELSE c

\* the context after the call and the bool the call returns
submit_commit(c, commit) ==
    LET op_num == commit.plain.op_num IN
    IF commit.plain.view_num # c.s.view_num THEN
        IF commit.plain.view_num > c.s.view_num
        THEN [c |-> Panic(c, "todo state transfer to enter view"), ok |-> FALSE]
        ELSE [c |-> c, ok |-> FALSE]
    ELSE IF op_num \in DOMAIN c.s.log /\ c.s.log[op_num].commits # << >>
    THEN [c |-> c, ok |-> FALSE]
    ELSE IF /\ op_num \in DOMAIN c.s.log
            /\ c.s.log[op_num].pre_prepare # None
            /\ commit.plain.digest # c.s.log[op_num].pre_prepare.plain.digest
    THEN [c |-> c, ok |-> FALSE]
    ELSE [c |-> [c EXCEPT !.cw = @ (+) SetToBag({Work("VerifyCommit", commit, << >>)})],
          ok |-> TRUE]

on_recv_commit(s, commit) ==
    LET op_num == commit.plain.op_num IN
    IF op_num \in DOMAIN s.pending_commits
    THEN Ctx([s EXCEPT !.pending_commits[op_num] = Append(@, commit)])
    ELSE
        LET r == submit_commit(Ctx(s), commit)
        IN  IF r.ok /\ r.c.s.panic = ""
            THEN [r.c EXCEPT !.s.pending_commits = MapPut(@, op_num, << >>)]
            ELSE r.c

RECURSIVE pending_commits_loop(_, _)
pending_commits_loop(c, op_num) ==
    IF c.s.panic # "" THEN c
    ELSE IF op_num \notin DOMAIN c.s.pending_commits THEN c
    ELSE
        LET pending == c.s.pending_commits[op_num] IN
        IF pending = << >>
        THEN [c EXCEPT !.s.pending_commits = MapRemove(@, op_num)]
        ELSE
            LET commit == pending[Len(pending)]
                c1 == [c EXCEPT !.s.pending_commits[op_num] =
                                    SubSeq(pending, 1, Len(pending) - 1)]
                r == submit_commit(c1, commit)
            IN  IF r.ok THEN r.c ELSE pending_commits_loop(r.c, op_num)

on_verified_commit(s, commit) ==
    IF commit.plain.view_num # s.view_num THEN Ctx(s)
    ELSE
        LET c == insert_commit(Ctx(s), commit)
        IN  pending_commits_loop(c, commit.plain.op_num)

(***************************************************************************)
(* PBFT client.                                                            *)
(***************************************************************************)
\* Client::new
ClientNew(id, addr, num_replica, num_faulty) ==
    [id |-> id, addr |-> addr, seq |-> 0, invoke |-> None, view_num |-> 0,
     num_replica |-> num_replica, num_faulty |-> num_faulty]

\* the effects of a client handler that has done nothing yet: the timers armed
\* for the client, the messages sent, the upcalls made and the value returned
ClientCtx(s, timers) ==
    [s |-> s, timers |-> timers, net |-> << >>, upcall |-> << >>, result |-> "Ok"]

\* net.send(dest, request) with dests the replica index, or All by ascending index
do_send(c, dests) ==
    LET request == Request(c.s.id, c.s.addr, c.s.seq, c.s.invoke.op)
    IN  [c EXCEPT !.net = [i \in DOMAIN dests |->
                            ToReplica(dests[i], "Request", request, << >>)]]

AllReplicas(s) == [i \in 1..s.num_replica |-> i - 1]

\* OnEvent<Invoke> past its ensure!
\* timer.set hands out a TimerId not in use; the id is the seq of the invocation
start_invoke(s, timers, op) ==
    LET seq == s.seq + 1
        invoke == [op |-> op, resend_timer |-> seq, replies |-> EmptyMap]
        s1 == [s EXCEPT !.seq = seq, !.invoke = invoke]
    IN  do_send(ClientCtx(s1, timers \cup {seq}), <<s.view_num % s.num_replica>>)

\* a variant of client_on_invoke that does not look for an outstanding invocation
client_on_invoke_unguarded(s, timers, op) == start_invoke(s, timers, op)

client_on_invoke(s, timers, op) ==
    IF s.invoke # None
    THEN [ClientCtx(s, timers) EXCEPT !.result = "concurrent invocation"]
    ELSE start_invoke(s, timers, op)

client_on_resend(s, timers) == do_send(ClientCtx(s, timers), AllReplicas(s))

\* a variant of matching_replies that counts every collected reply
matching_replies_any(replies, reply) == MapLen(replies)

\* how many of the collected replies hold the result of reply
matching_replies(replies, reply) ==
    Cardinality({id \in DOMAIN replies : replies[id].result = reply.result})

client_on_recv_reply(s, timers, reply) ==
    IF reply.seq # s.seq THEN ClientCtx(s, timers)
    ELSE IF s.invoke = None THEN ClientCtx(s, timers)
    ELSE
        LET replies == MapPut(s.invoke.replies, reply.replica_id, reply)
        IN  IF matching_replies(replies, reply) = s.num_faulty + 1
            THEN [ClientCtx([s EXCEPT !.view_num = reply.view_num, !.invoke = None],
                            timers \ {s.invoke.resend_timer})
                    EXCEPT !.upcall = << <<s.id, reply.result>> >>]
            ELSE ClientCtx([s EXCEPT !.invoke.replies = replies], timers)

(***************************************************************************)
(* The system: replicas, their crypto workers, clients, timers, and the    *)
(* two networks.  A connection delivers in sending order; connections are  *)
(* independent of each other, and the crypto worker finishes its work in   *)
(* any order.                                                              *)
(***************************************************************************)
VARIABLES
    replica,        \* replica id -> Replica, for the replicas that are modelled
    worker,         \* replica id -> the bag of crypto work submitted and not done
    net,            \* replica id -> sender -> the ToReplica messages in flight
    client_net,     \* client address -> replica id -> the ToClient messages in flight
    client,         \* client id -> Client, for the clients that are modelled
    timers,         \* client id -> the set of TimerIds armed
    upcalls,        \* client id -> the InvokeOk upcalls made, oldest first
    client_result,  \* client id -> what the last handler of the client returned
    resends,        \* client id -> how often the resend timer has fired
    heard,          \* client id -> history: the Replies the client has handled
                    \* for its outstanding invocation, oldest first (kept only
                    \* by the specification of the client on its own)
    injected        \* how many messages the environment has injected

\* COPS (src/src/cops.rs)
VARIABLES
    cops_replica,     \* replica address -> Replica
    cops_client,      \* client address -> Client
    cops_net,         \* replica address -> sender -> the ToReplicaMessages in flight
    cops_client_net,  \* client address -> the ToClientMessages in flight
    version_service,  \* replica address -> the Updates the service has not answered
    update_oks,       \* replica address -> the UpdateOks the replica has not handled
    cops_timers,      \* client address -> the TimerIds armed
    cops_upcalls,     \* client address -> the InvokeOk upcalls made, oldest first
    cops_result,      \* address -> what the last handler of the component returned
    session,          \* client address -> history: the (key, version_deps) of the
                      \* invocations that have completed, oldest first
    cops_injected     \* how many messages the environment has injected

\* Lamport mutex (src/src/bin/boson/mutex.rs wires lamport_mutex::Processor)
VARIABLES
    mutex_peer,       \* peer id -> the Processor and the clock of its causal net
    mutex_net,        \* <<sender, receiver>> -> the messages in flight, in order
    mutex_upcalls     \* the RequestOk upcalls made, oldest first

\* the workloads (src/src/workload.rs)
VARIABLES
    remain_count,     \* the AtomicU32 the clones of a Total share
    total_count,      \* history: the count the Total was created with
    total,            \* clone -> its call of next_op: where it is, its local
                      \* remain_count, and how its calls have ended
    close_loop,       \* the CloseLoop and what its last handler returned
    close_loop_sent,  \* the Invoke and Stop events the CloseLoop has sent
    close_loop_events \* history: the events the CloseLoop has handled

pbft_vars == <<replica, worker, net, client_net, client, timers, upcalls,
               client_result, resends, heard, injected>>

cops_vars == <<cops_replica, cops_client, cops_net, cops_client_net,
               version_service, update_oks, cops_timers, cops_upcalls,
               cops_result, session, cops_injected>>

mutex_vars == <<mutex_peer, mutex_net, mutex_upcalls>>

workload_vars == <<remain_count, total_count, total, close_loop, close_loop_sent,
                   close_loop_events>>

vars == <<pbft_vars, cops_vars, mutex_vars, workload_vars>>

\* what the handlers of one protocol leave alone
non_pbft_vars == <<cops_vars, mutex_vars, workload_vars>>

non_cops_vars == <<pbft_vars, mutex_vars, workload_vars>>

non_mutex_vars == <<pbft_vars, cops_vars, workload_vars>>

non_workload_vars == <<pbft_vars, cops_vars, mutex_vars>>

\* no PBFT component is running
PbftNone ==
    /\ replica = << >>
    /\ worker = << >>
    /\ net = << >>
    /\ client_net = << >>
    /\ client = << >>
    /\ timers = << >>
    /\ upcalls = << >>
    /\ client_result = << >>
    /\ resends = << >>
    /\ heard = << >>
    /\ injected = 0

\* no COPS component is running
CopsNone ==
    /\ cops_replica = << >>
    /\ cops_client = << >>
    /\ cops_net = << >>
    /\ cops_client_net = << >>
    /\ version_service = << >>
    /\ update_oks = << >>
    /\ cops_timers = << >>
    /\ cops_upcalls = << >>
    /\ cops_result = << >>
    /\ session = << >>
    /\ cops_injected = 0

\* no mutex peer is running
MutexNone ==
    /\ mutex_peer = << >>
    /\ mutex_net = << >>
    /\ mutex_upcalls = << >>

\* no workload is running
WorkloadNone ==
    /\ remain_count = << >>
    /\ total_count = 0
    /\ total = << >>
    /\ close_loop = << >>
    /\ close_loop_sent = << >>
    /\ close_loop_events = << >>

\* only PBFT components are running
OnlyPbft == CopsNone /\ MutexNone /\ WorkloadNone

\* only COPS components are running
OnlyCops == PbftNone /\ MutexNone /\ WorkloadNone

\* only mutex peers are running
OnlyMutex == PbftNone /\ CopsNone /\ WorkloadNone

\* only workloads are running
OnlyWorkload == PbftNone /\ CopsNone /\ MutexNone

Replicas == DOMAIN replica

Clients == DOMAIN client

\* the two kinds of senders of ToReplica messages
FromReplica(r) == <<"replica", r>>

FromClient(k) == <<"client", k>>

Running(r) == replica[r].panic = ""

\* a handler that returns an error ends the client's session
ClientRunning(k) == client_result[k] = "Ok"

\* msgs (in order) enter the connections from src; a message to a replica
\* that is not modelled leaves the model
Enqueue(n, src, msgs) ==
    [d \in DOMAIN n |->
        [s \in DOMAIN n[d] |->
            IF s = src
            THEN n[d][s] \o SelectSeq(msgs, LAMBDA m : m.dest = d)
            ELSE n[d][s]]]

Dequeue(n, d, src) == [n EXCEPT ![d][src] = Tail(@)]

One(x) == SetToBag({x})

\* replica r has handled one event: c holds its new state and its effects
ReplicaStep(r, c, net1, worker1) ==
    /\ replica' = [replica EXCEPT ![r] = c.s]
    /\ net' = Enqueue(net1, FromReplica(r), c.net)
    /\ worker' = [worker1 EXCEPT ![r] = @ (+) c.cw]
    /\ client_net' = Enqueue(client_net, r, c.cn)
    /\ UNCHANGED <<client, timers, upcalls, client_result, resends, heard, injected>>
    /\ UNCHANGED non_pbft_vars

\* the senders whose connection to r holds a message
Senders(r) == {src \in DOMAIN net[r] : net[r][src] # << >>}

\* the crypto work of r that may finish next
Unfinished(r) == BagToSet(worker[r])

WorkerDone(r, w) == [worker EXCEPT ![r] = @ (-) One(w)]

\* r reads the next message of its connection from src
Receives(r, src, kind) ==
    /\ Running(r)
    /\ src \in Senders(r)
    /\ Head(net[r][src]).kind = kind

\* the crypto worker of r has done w and r handles what it emits
Finishes(r, w, kind) ==
    /\ Running(r)
    /\ w \in Unfinished(r)
    /\ w.kind = kind

RecvRequest(r, src) ==
    /\ Receives(r, src, "Request")
    /\ ReplicaStep(r, on_recv_request(replica[r], Head(net[r][src]).msg),
                   Dequeue(net, r, src), worker)

\* the work of close_batch signs the pre-prepare
SignedPrePrepare(r, w) ==
    /\ Finishes(r, w, "SignPrePrepare")
    /\ ReplicaStep(r, on_signed_pre_prepare(replica[r], Sign(r, w.msg), w.requests),
                   net, WorkerDone(r, w))

RecvPrePrepare(r, src) ==
    /\ Receives(r, src, "PrePrepare")
    /\ LET m == Head(net[r][src])
       IN  ReplicaStep(r, on_recv_pre_prepare(replica[r], m.msg, m.requests),
                       Dequeue(net, r, src), worker)

\* the verification closure emits Verified only for a matching digest and a
\* signature of the primary of the view
VerifiedPrePrepare(r, w) ==
    /\ Finishes(r, w, "VerifyPrePrepare")
    /\ LET replica_id == w.msg.plain.view_num % replica[r].num_replica
       IN  IF Sha256(w.requests) = w.msg.plain.digest /\ Verify(replica_id, w.msg)
           THEN ReplicaStep(r, on_verified_pre_prepare(replica[r], w.msg, w.requests),
                            net, WorkerDone(r, w))
           ELSE ReplicaStep(r, Ctx(replica[r]), net, WorkerDone(r, w))

SignedPrepare(r, w) ==
    /\ Finishes(r, w, "SignPrepare")
    /\ ReplicaStep(r, on_signed_prepare(replica[r], Sign(r, w.msg)),
                   net, WorkerDone(r, w))

RecvPrepare(r, src) ==
    /\ Receives(r, src, "Prepare")
    /\ ReplicaStep(r, on_recv_prepare(replica[r], Head(net[r][src]).msg),
                   Dequeue(net, r, src), worker)

VerifiedPrepare(r, w) ==
    /\ Finishes(r, w, "VerifyPrepare")
    /\ IF Verify(w.msg.plain.replica_id, w.msg)
       THEN ReplicaStep(r, on_verified_prepare(replica[r], w.msg),
                        net, WorkerDone(r, w))
       ELSE ReplicaStep(r, Ctx(replica[r]), net, WorkerDone(r, w))

SignedCommit(r, w) ==
    /\ Finishes(r, w, "SignCommit")
    /\ ReplicaStep(r, on_signed_commit(replica[r], Sign(r, w.msg)),
                   net, WorkerDone(r, w))

RecvCommit(r, src) ==
    /\ Receives(r, src, "Commit")
    /\ ReplicaStep(r, on_recv_commit(replica[r], Head(net[r][src]).msg),
                   Dequeue(net, r, src), worker)

VerifiedCommit(r, w) ==
    /\ Finishes(r, w, "VerifyCommit")
    /\ IF Verify(w.msg.plain.replica_id, w.msg)
       THEN ReplicaStep(r, on_verified_commit(replica[r], w.msg),
                        net, WorkerDone(r, w))
       ELSE ReplicaStep(r, Ctx(replica[r]), net, WorkerDone(r, w))

\* client k has handled one event
ClientStep(k, c, client_net1) ==
    /\ client' = [client EXCEPT ![k] = c.s]
    /\ timers' = [timers EXCEPT ![k] = c.timers]
    /\ upcalls' = [upcalls EXCEPT ![k] = @ \o c.upcall]
    /\ client_result' = [client_result EXCEPT ![k] = c.result]
    /\ net' = Enqueue(net, FromClient(k), c.net)
    /\ client_net' = client_net1
    /\ UNCHANGED <<replica, worker, injected>>
    /\ UNCHANGED non_pbft_vars

\* the ops the workload invokes
Ops == {"x"}

\* what the history keeps of a Reply
Heard(reply) ==
    [seq |-> reply.seq, result |-> reply.result, replica_id |-> reply.replica_id]

\* the workload invokes an op
Invoke(k) ==
    /\ ClientRunning(k)
    /\ client[k].invoke = None => client[k].seq < MaxSeq
    /\ \E op \in Ops :
        ClientStep(k, client_on_invoke(client[k], timers[k], op), client_net)
    /\ UNCHANGED resends

\* the resend timer fires; it is armed while an invocation is outstanding
Resend(k) ==
    /\ ClientRunning(k)
    /\ timers[k] # {}
    /\ resends[k] < MaxResend
    /\ resends' = [resends EXCEPT ![k] = @ + 1]
    /\ ClientStep(k, client_on_resend(client[k], timers[k]), client_net)

\* client k reads the next Reply of its connection from replica r
RecvReplyFrom(k, r) ==
    LET from == client_net[client[k].addr][r] IN
    /\ ClientRunning(k)
    /\ from # << >>
    /\ ClientStep(k, client_on_recv_reply(client[k], timers[k], Head(from).reply),
                  [client_net EXCEPT ![client[k].addr][r] = Tail(@)])
    /\ UNCHANGED resends

RecvReply(k) == \E r \in DOMAIN client_net[client[k].addr] : RecvReplyFrom(k, r)

(***************************************************************************)
(* The closed system of num_replica correct replicas and a close-loop      *)
(* client, in the runs in which the last replica lags.  The other replicas *)
(* handle their events first, lower ids first, and each of them finishes   *)
(* its crypto work, in a fixed order, before it reads any of its           *)
(* connections; then the client handles its events; the last replica runs  *)
(* only when the rest is idle, it reads its connections in any order, and  *)
(* it finishes the verification of a pre-prepare at any time after its     *)
(* other crypto work.  The history of Replies is not kept.                 *)
(***************************************************************************)
SystemInit(num_replica, num_faulty, clients) ==
    LET ids == 0..(num_replica - 1)
        senders == {FromReplica(r) : r \in ids} \cup {FromClient(k) : k \in clients}
    IN  /\ replica = [r \in ids |-> ReplicaNew(r, num_replica, num_faulty)]
        /\ worker = [r \in ids |-> EmptyBag]
        /\ net = [r \in ids |-> [s \in senders |-> << >>]]
        /\ client_net = [k \in clients |-> [r \in ids |-> << >>]]
        /\ client = [k \in clients |-> ClientNew(k, k, num_replica, num_faulty)]
        /\ timers = [k \in clients |-> {}]
        /\ upcalls = [k \in clients |-> << >>]
        /\ client_result = [k \in clients |-> "Ok"]
        /\ resends = [k \in clients |-> 0]
        /\ heard = [k \in clients |-> << >>]
        /\ injected = 0
        /\ OnlyPbft

Init == SystemInit(4, 1, {1})

HasWork(r) == Running(r) /\ (Unfinished(r) # {} \/ Senders(r) # {})

\* how many ops the workload of a client holds: MaxSeq for a client on its
\* own, MaxInvoke for each of two concurrent clients
WorkloadLen == IF Cardinality(Clients) = 1 THEN MaxSeq ELSE MaxInvoke

ClientHasWork(k) ==
    /\ ClientRunning(k)
    /\ \/ \E r \in DOMAIN client_net[client[k].addr] :
            client_net[client[k].addr][r] # << >>
       \/ client[k].invoke = None /\ client[k].seq < WorkloadLen

\* the replica that lags
Slow == CHOOSE r \in Replicas : \A q \in Replicas : q <= r

ReplicaTurn(r) ==
    /\ \A q \in Replicas \ {Slow} : q < r => ~HasWork(q)
    /\ r = Slow => \A k \in Clients : ~ClientHasWork(k)

ClientTurn(k) ==
    /\ \A q \in Replicas \ {Slow} : ~HasWork(q)
    /\ \A j \in Clients : j < k => ~ClientHasWork(j)

\* an order of the crypto work of one replica: signing first, then by slot
WorkRank(w) ==
    LET kind == CASE w.kind = "SignPrePrepare" -> 0
                  [] w.kind = "SignPrepare" -> 1
                  [] w.kind = "SignCommit" -> 2
                  [] w.kind = "VerifyPrePrepare" -> 3
                  [] w.kind = "VerifyPrepare" -> 4
                  [] w.kind = "VerifyCommit" -> 5
        op_num == IF kind < 3 THEN w.msg.op_num ELSE w.msg.plain.op_num
    IN  kind + 6 * op_num

First(work) == {w \in work : \A v \in work : WorkRank(w) <= WorkRank(v)}

\* the crypto work of r but the verification of pre-prepares, which hashes
\* the whole batch
QuickWork(r) == {w \in Unfinished(r) : w.kind # "VerifyPrePrepare"}

\* the crypto work replica r may finish next in this schedule: signing and
\* the verification of prepares and commits finish before the replica does
\* anything else; the verification of a pre-prepare takes as long as it likes
\* at the replica that lags
TurnWork(r) ==
    IF ~ReplicaTurn(r) THEN {}
    ELSE IF QuickWork(r) # {} THEN First(QuickWork(r))
    ELSE IF r = Slow THEN Unfinished(r)
    ELSE First(Unfinished(r))

\* the connections replica r may read next in this schedule
TurnSenders(r) ==
    IF ~ReplicaTurn(r) THEN {}
    ELSE IF QuickWork(r) # {} THEN {}
    ELSE IF r = Slow THEN Senders(r)
    ELSE IF Unfinished(r) # {} THEN {}
    ELSE Senders(r)

Next ==
    \/ \E r \in Replicas : \E src \in TurnSenders(r) : RecvRequest(r, src)
    \/ \E r \in Replicas : \E w \in TurnWork(r) : SignedPrePrepare(r, w)
    \/ \E r \in Replicas : \E src \in TurnSenders(r) : RecvPrePrepare(r, src)
    \/ \E r \in Replicas : \E w \in TurnWork(r) : VerifiedPrePrepare(r, w)
    \/ \E r \in Replicas : \E w \in TurnWork(r) : SignedPrepare(r, w)
    \/ \E r \in Replicas : \E src \in TurnSenders(r) : RecvPrepare(r, src)
    \/ \E r \in Replicas : \E w \in TurnWork(r) : VerifiedPrepare(r, w)
    \/ \E r \in Replicas : \E w \in TurnWork(r) : SignedCommit(r, w)
    \/ \E r \in Replicas : \E src \in TurnSenders(r) : RecvCommit(r, src)
    \/ \E r \in Replicas : \E w \in TurnWork(r) : VerifiedCommit(r, w)
    \/ \E k \in Clients :
        ClientTurn(k) /\ client[k].invoke = None /\ Invoke(k) /\ UNCHANGED heard
    \/ \E k \in Clients : ClientTurn(k) /\ RecvReply(k) /\ UNCHANGED heard

\* the normal case: every reply arrives before the resend timer fires
Spec == Init /\ [][Next]_vars

\* the resend timer may fire while an invocation is outstanding, once the
\* replicas that do not lag have handled their events
NextResend ==
    \/ Next
    \/ \E k \in Clients : ClientTurn(k) /\ Resend(k) /\ UNCHANGED heard

SpecResend == Init /\ [][NextResend]_vars

(***************************************************************************)
(* The closed system with two close-loop clients.  A client invokes as     *)
(* soon as it can, so that the Request of the second client reaches the    *)
(* primary while the slot of the first is outstanding; the replicas and    *)
(* the Replies follow the schedule above, and the resend timer of a client *)
(* may fire while the backups have not read a message yet, or when the     *)
(* replicas that do not lag are idle.                                      *)
(***************************************************************************)
InitTwoClients == SystemInit(4, 1, {1, 2})

\* the workload of client k has an op to invoke
CanInvoke(k) == ClientRunning(k) /\ client[k].invoke = None /\ client[k].seq < WorkloadLen

\* every client has invoked what it can
Invoked2 == \A k \in Clients : ~CanInvoke(k)

\* no backup has read a message yet
BackupsLag ==
    \A q \in Replicas :
        ~is_primary(replica[q]) =>
            replica[q] = ReplicaNew(q, replica[q].num_replica, replica[q].num_faulty)

NextTwoClients ==
    \/ \E r \in Replicas : \E src \in TurnSenders(r) : Invoked2 /\ RecvRequest(r, src)
    \/ \E r \in Replicas : \E w \in TurnWork(r) : Invoked2 /\ SignedPrePrepare(r, w)
    \/ \E r \in Replicas : \E src \in TurnSenders(r) : Invoked2 /\ RecvPrePrepare(r, src)
    \/ \E r \in Replicas : \E w \in TurnWork(r) : Invoked2 /\ VerifiedPrePrepare(r, w)
    \/ \E r \in Replicas : \E w \in TurnWork(r) : Invoked2 /\ SignedPrepare(r, w)
    \/ \E r \in Replicas : \E src \in TurnSenders(r) : Invoked2 /\ RecvPrepare(r, src)
    \/ \E r \in Replicas : \E w \in TurnWork(r) : Invoked2 /\ VerifiedPrepare(r, w)
    \/ \E r \in Replicas : \E w \in TurnWork(r) : Invoked2 /\ SignedCommit(r, w)
    \/ \E r \in Replicas : \E src \in TurnSenders(r) : Invoked2 /\ RecvCommit(r, src)
    \/ \E r \in Replicas : \E w \in TurnWork(r) : Invoked2 /\ VerifiedCommit(r, w)
    \/ \E k \in Clients : CanInvoke(k) /\ Invoke(k) /\ UNCHANGED heard
    \/ \E k \in Clients : Invoked2 /\ ClientTurn(k) /\ RecvReply(k) /\ UNCHANGED heard
    \/ \E k \in Clients :
        Invoked2 /\ (BackupsLag \/ ClientTurn(k)) /\ Resend(k) /\ UNCHANGED heard

SpecTwoClients == InitTwoClients /\ [][NextTwoClients]_vars

\* no resend timer fires
NextPatientClients ==
    NextTwoClients /\ resends' = resends

SpecPatientClients == InitTwoClients /\ [][NextPatientClients]_vars

(***************************************************************************)
(* One replica on its own.  Its environment is the network: it sends the   *)
(* replica any validly signed message of a small universe, in any order,   *)
(* one message at a time; the replica reads the message and its crypto     *)
(* worker finishes its work in any order.  The peers of the replica and    *)
(* the clients are not modelled: the Replies of the replica stay in        *)
(* client_net.                                                             *)
(***************************************************************************)
\* the requests of the client of the environment
EnvRequest(seq) == Request(1, 1, seq, "x")

\* the batches the environment proposes
EnvBatches == {<<EnvRequest(1)>>, <<EnvRequest(MaxSeq), EnvRequest(1)>>}

EnvSlots == 1..MaxSlot

\* the backups whose prepares and commits the environment sends
EnvVoters == {2, 3}

\* what the environment may send to replica r on the connection from src
EnvMessages(r, src) ==
    IF src[1] = "client"
    THEN {ToReplica(r, "Request", EnvRequest(seq), << >>) : seq \in 1..MaxSeq}
    ELSE
        LET q == src[2]
            view_num == replica[r].view_num
        IN  {ToReplica(r, "PrePrepare",
                       Sign(q, PrePrepare(view_num, k, Sha256(b))), b) :
                k \in {k \in EnvSlots : q = view_num % replica[r].num_replica},
                b \in EnvBatches}
            \cup
            {ToReplica(r, "Prepare",
                       Sign(q, Prepare(view_num, k, Sha256(b), q)), << >>) :
                k \in {k \in EnvSlots : q \in EnvVoters}, b \in EnvBatches}
            \cup
            {ToReplica(r, "Commit",
                       Sign(q, Commit(view_num, k, Sha256(b), q)), << >>) :
                k \in {k \in EnvSlots : q \in EnvVoters}, b \in EnvBatches}

\* the environment sends replica r a message once r has read the last one
Inject(r) ==
    /\ Running(r)
    /\ injected < MaxInject
    /\ Senders(r) = {}
    /\ \E src \in DOMAIN net[r] : \E m \in EnvMessages(r, src) :
        net' = [net EXCEPT ![r][src] = Append(@, m)]
    /\ injected' = injected + 1
    /\ UNCHANGED <<replica, worker, client_net, client, timers, upcalls,
                   client_result, resends, heard>>
    /\ UNCHANGED non_pbft_vars

InitReplica ==
    \E id \in {0, 1} :
        LET senders == {FromReplica(q) : q \in 0..3 \ {id}} \cup {FromClient(1)}
        IN  /\ replica = (id :> ReplicaNew(id, 4, 1))
            /\ worker = (id :> EmptyBag)
            /\ net = (id :> [s \in senders |-> << >>])
            /\ client_net = (1 :> (id :> << >>))
            /\ client = << >>
            /\ timers = << >>
            /\ upcalls = << >>
            /\ client_result = << >>
            /\ resends = << >>
            /\ heard = << >>
            /\ injected = 0
            /\ OnlyPbft

NextReplica ==
    \/ \E r \in Replicas : Inject(r)
    \/ \E r \in Replicas : \E src \in Senders(r) : RecvRequest(r, src)
    \/ \E r \in Replicas : \E w \in Unfinished(r) : SignedPrePrepare(r, w)
    \/ \E r \in Replicas : \E src \in Senders(r) : RecvPrePrepare(r, src)
    \/ \E r \in Replicas : \E w \in Unfinished(r) : VerifiedPrePrepare(r, w)
    \/ \E r \in Replicas : \E w \in Unfinished(r) : SignedPrepare(r, w)
    \/ \E r \in Replicas : \E src \in Senders(r) : RecvPrepare(r, src)
    \/ \E r \in Replicas : \E w \in Unfinished(r) : VerifiedPrepare(r, w)
    \/ \E r \in Replicas : \E w \in Unfinished(r) : SignedCommit(r, w)
    \/ \E r \in Replicas : \E src \in Senders(r) : RecvCommit(r, src)
    \/ \E r \in Replicas : \E w \in Unfinished(r) : VerifiedCommit(r, w)

SpecReplica == InitReplica /\ [][NextReplica]_vars

(***************************************************************************)
(* One replica whose environment sends it, besides the PrePrepare of the   *)
(* primary, only Prepares and Commits that it drops: those whose signature *)
(* is not of the replica_id they name, and those whose digest is not the   *)
(* digest of the pre-prepare the slot holds.  (A Prepare of a view below   *)
(* view_num does not exist: view_num stays 0.)                             *)
(***************************************************************************)
\* the PrePrepare of the primary, while r has neither it nor its verification
EnvProposals(r, src) ==
    LET view_num == replica[r].view_num
        held == {k \in EnvSlots :
                    \/ k \in DOMAIN replica[r].log
                       /\ replica[r].log[k].pre_prepare # None
                    \/ \E w \in BagToSet(worker[r]) : w.kind = "VerifyPrePrepare"}
    IN  IF src # FromReplica(view_num % replica[r].num_replica) THEN {}
        ELSE {ToReplica(r, "PrePrepare",
                        Sign(src[2], PrePrepare(view_num, k, Sha256(b))), b) :
                k \in EnvSlots \ held, b \in EnvBatches}

\* the Prepares and Commits that r drops
EnvDrops(r, src) ==
    IF src[1] = "client" \/ src[2] \notin EnvVoters THEN {}
    ELSE
        LET q == src[2]
            view_num == replica[r].view_num
            forgers == EnvVoters \ {q}
            others(k) == {b \in EnvBatches :
                            /\ k \in DOMAIN replica[r].log
                            /\ replica[r].log[k].pre_prepare # None
                            /\ replica[r].log[k].pre_prepare.plain.digest # Sha256(b)}
        IN  {ToReplica(r, "Prepare",
                       Sign(p, Prepare(view_num, k, Sha256(b), q)), << >>) :
                p \in forgers, k \in EnvSlots, b \in EnvBatches}
            \cup
            {ToReplica(r, "Commit",
                       Sign(p, Commit(view_num, k, Sha256(b), q)), << >>) :
                p \in forgers, k \in EnvSlots, b \in EnvBatches}
            \cup
            UNION UNION {{{ToReplica(r, "Prepare",
                        Sign(q, Prepare(view_num, k, Sha256(b), q)), << >>),
                    ToReplica(r, "Commit",
                        Sign(q, Commit(view_num, k, Sha256(b), q)), << >>)} :
                   b \in others(k)} : k \in EnvSlots}

InjectDrops(r) ==
    /\ Running(r)
    /\ injected < MaxInject
    /\ Senders(r) = {}
    /\ \E src \in DOMAIN net[r] :
        \E m \in EnvProposals(r, src) \cup EnvDrops(r, src) :
            net' = [net EXCEPT ![r][src] = Append(@, m)]
    /\ injected' = injected + 1
    /\ UNCHANGED <<replica, worker, client_net, client, timers, upcalls,
                   client_result, resends, heard>>
    /\ UNCHANGED non_pbft_vars

NextReplicaDrops ==
    \/ \E r \in Replicas : InjectDrops(r)
    \/ \E r \in Replicas : \E src \in Senders(r) : RecvPrePrepare(r, src)
    \/ \E r \in Replicas : \E w \in Unfinished(r) : VerifiedPrePrepare(r, w)
    \/ \E r \in Replicas : \E w \in Unfinished(r) : SignedPrepare(r, w)
    \/ \E r \in Replicas : \E src \in Senders(r) : RecvPrepare(r, src)
    \/ \E r \in Replicas : \E w \in Unfinished(r) : VerifiedPrepare(r, w)
    \/ \E r \in Replicas : \E src \in Senders(r) : RecvCommit(r, src)
    \/ \E r \in Replicas : \E w \in Unfinished(r) : VerifiedCommit(r, w)

SpecReplicaDrops == InitReplica /\ [][NextReplicaDrops]_vars

(***************************************************************************)
(* The primary on its own with a client that does not wait: the client     *)
(* sends the Requests of seq 1, 2, ... MaxBacklog one after the other, and  *)
(* the backups 2 and 3 then send, once each, their Prepare for the slots   *)
(* of EnvSlots that the primary has proposed and their Commit for those it *)
(* has prepared.                                                           *)
(***************************************************************************)
InitPrimary ==
    LET id == 0
        senders == {FromReplica(q) : q \in 0..3 \ {id}} \cup {FromClient(1)}
    IN  /\ replica = (id :> ReplicaNew(id, 4, 1))
        /\ worker = (id :> EmptyBag)
        /\ net = (id :> [s \in senders |-> << >>])
        /\ client_net = (1 :> (id :> << >>))
        /\ client = << >>
        /\ timers = << >>
        /\ upcalls = << >>
        /\ client_result = << >>
        /\ resends = << >>
        /\ heard = << >>
        /\ injected = 0
        /\ OnlyPbft

\* the next Request of the client: the seq after the last one r has taken
EnvBacklog(r, src) ==
    LET seq == IF 1 \in DOMAIN replica[r].replies
               THEN replica[r].replies[1].seq + 1 ELSE 1
    IN  IF src = FromClient(1) /\ seq <= MaxBacklog
        THEN {ToReplica(r, "Request", EnvRequest(seq), << >>)}
        ELSE {}

\* the votes of backup q that r has not been sent yet; the backups are slow:
\* they vote when the client has sent all its Requests, and for the slots of
\* EnvSlots
EnvVotes(r, src) ==
    IF src[1] = "client" \/ src[2] \notin EnvVoters THEN {}
    ELSE IF EnvBacklog(r, FromClient(1)) # {} THEN {}
    ELSE
        LET q == src[2]
            s == replica[r]
            slots == {k \in DOMAIN s.log \cap EnvSlots : s.log[k].pre_prepare # None}
            verifying(kind, k) ==
                \E w \in BagToSet(worker[r]) :
                    /\ w.kind = kind
                    /\ w.msg.plain.op_num = k
                    /\ w.msg.plain.replica_id = q
            waiting(pending, k) ==
                /\ k \in DOMAIN pending
                /\ \E i \in DOMAIN pending[k] : pending[k][i].plain.replica_id = q
            prepared == {k \in slots : s.log[k].prepares # << >>}
            wants_prepare ==
                {k \in slots \ prepared :
                    /\ ~(k \in DOMAIN s.prepare_quorums
                            /\ q \in DOMAIN s.prepare_quorums[k])
                    /\ ~verifying("VerifyPrepare", k)
                    /\ ~waiting(s.pending_prepares, k)}
            wants_commit ==
                {k \in prepared :
                    /\ s.log[k].commits = << >>
                    /\ ~(k \in DOMAIN s.commit_quorums
                            /\ q \in DOMAIN s.commit_quorums[k])
                    /\ ~verifying("VerifyCommit", k)
                    /\ ~waiting(s.pending_commits, k)}
        IN  {ToReplica(r, "Prepare",
                       Sign(q, Prepare(s.view_num, k,
                                       s.log[k].pre_prepare.plain.digest, q)),
                       << >>) : k \in wants_prepare}
            \cup
            {ToReplica(r, "Commit",
                       Sign(q, Commit(s.view_num, k,
                                      s.log[k].pre_prepare.plain.digest, q)),
                       << >>) : k \in wants_commit}

InjectBacklog(r) ==
    /\ Running(r)
    /\ Senders(r) = {}
    /\ \E src \in DOMAIN net[r] :
        \E m \in EnvBacklog(r, src) \cup EnvVotes(r, src) :
            net' = [net EXCEPT ![r][src] = Append(@, m)]
    /\ injected' = injected + 1
    /\ UNCHANGED <<replica, worker, client_net, client, timers, upcalls,
                   client_result, resends, heard>>
    /\ UNCHANGED non_pbft_vars

NextPrimaryBacklog ==
    \/ \E r \in Replicas : InjectBacklog(r)
    \/ \E r \in Replicas : \E src \in Senders(r) : RecvRequest(r, src)
    \/ \E r \in Replicas : \E w \in Unfinished(r) : SignedPrePrepare(r, w)
    \/ \E r \in Replicas : \E src \in Senders(r) : RecvPrepare(r, src)
    \/ \E r \in Replicas : \E w \in Unfinished(r) : VerifiedPrepare(r, w)
    \/ \E r \in Replicas : \E w \in Unfinished(r) : SignedCommit(r, w)
    \/ \E r \in Replicas : \E src \in Senders(r) : RecvCommit(r, src)
    \/ \E r \in Replicas : \E w \in Unfinished(r) : VerifiedCommit(r, w)

SpecPrimaryBacklog == InitPrimary /\ [][NextPrimaryBacklog]_vars

(***************************************************************************)
(* A backup whose peers are ahead of the primary: the environment sends    *)
(* the Prepares of the backups 2 and 3 for a slot only before it sends the *)
(* PrePrepare of that slot, which it sends once the backup has tallied     *)
(* them, and the Commits of the replicas 0, 2 and 3 only until the slot is *)
(* about to become Prepared.  No Prepare reaches the backup after the      *)
(* PrePrepare, and no Commit once the slot is Prepared.                    *)
(***************************************************************************)
InitBackup ==
    LET id == 1
        senders == {FromReplica(q) : q \in 0..3 \ {id}} \cup {FromClient(1)}
    IN  /\ replica = (id :> ReplicaNew(id, 4, 1))
        /\ worker = (id :> EmptyBag)
        /\ net = (id :> [s \in senders |-> << >>])
        /\ client_net = (1 :> (id :> << >>))
        /\ client = << >>
        /\ timers = << >>
        /\ upcalls = << >>
        /\ client_result = << >>
        /\ resends = << >>
        /\ heard = << >>
        /\ injected = 0
        /\ OnlyPbft

\* slot k of r holds a pre-prepare
Installed(r, k) == k \in DOMAIN replica[r].log /\ replica[r].log[k].pre_prepare # None

\* slot k of r is Prepared
PreparedSlot(r, k) == k \in DOMAIN replica[r].log /\ replica[r].log[k].prepares # << >>

\* slot k of r is Committed-Local
CommittedSlot(r, k) == k \in DOMAIN replica[r].log /\ replica[r].log[k].commits # << >>

\* r is verifying a PrePrepare
Proposing(r) == \E w \in BagToSet(worker[r]) : w.kind = "VerifyPrePrepare"

\* r is signing its own Prepare
SigningPrepare(r) == \E w \in BagToSet(worker[r]) : w.kind = "SignPrepare"

\* the Prepares of the peers of r that are ahead of the primary
EnvEarlyPrepares(r, src) ==
    IF src[1] = "client" \/ src[2] \notin EnvVoters \/ Proposing(r) THEN {}
    ELSE {ToReplica(r, "Prepare",
                    Sign(src[2], Prepare(replica[r].view_num, k, Sha256(b), src[2])),
                    << >>) :
            k \in {k \in EnvSlots : ~Installed(r, k)}, b \in EnvBatches}

\* the Commits of the peers of r that are ahead of r
EnvEarlyCommits(r, src) ==
    IF src[1] = "client" \/ Proposing(r) THEN {}
    ELSE {ToReplica(r, "Commit",
                    Sign(src[2], Commit(replica[r].view_num, k, Sha256(b), src[2])),
                    << >>) :
            k \in {k \in EnvSlots :
                    /\ ~PreparedSlot(r, k)
                    /\ Installed(r, k) => SigningPrepare(r)},
            b \in EnvBatches}

\* the environment sends r a vote once r has read the last message, and the
\* PrePrepare once r has tallied the votes
InjectEarly(r) ==
    /\ Running(r)
    /\ injected < MaxInject
    /\ Senders(r) = {}
    /\ \E src \in DOMAIN net[r] :
        \E m \in EnvEarlyPrepares(r, src) \cup EnvEarlyCommits(r, src)
                \cup (IF worker[r] = EmptyBag THEN EnvProposals(r, src) ELSE {}) :
            net' = [net EXCEPT ![r][src] = Append(@, m)]
    /\ injected' = injected + 1
    /\ UNCHANGED <<replica, worker, client_net, client, timers, upcalls,
                   client_result, resends, heard>>
    /\ UNCHANGED non_pbft_vars

NextEarlyVotes ==
    \/ \E r \in Replicas : InjectEarly(r)
    \/ \E r \in Replicas : \E src \in Senders(r) : RecvPrePrepare(r, src)
    \/ \E r \in Replicas : \E w \in Unfinished(r) : VerifiedPrePrepare(r, w)
    \/ \E r \in Replicas : \E w \in Unfinished(r) : SignedPrepare(r, w)
    \/ \E r \in Replicas : \E src \in Senders(r) : RecvPrepare(r, src)
    \/ \E r \in Replicas : \E w \in Unfinished(r) : VerifiedPrepare(r, w)
    \/ \E r \in Replicas : \E w \in Unfinished(r) : SignedCommit(r, w)
    \/ \E r \in Replicas : \E src \in Senders(r) : RecvCommit(r, src)
    \/ \E r \in Replicas : \E w \in Unfinished(r) : VerifiedCommit(r, w)

SpecEarlyVotes == InitBackup /\ [][NextEarlyVotes]_vars

(***************************************************************************)
(* One client on its own.  Its environment is the workload, which invokes  *)
(* at any time, the resend timer, and the network, which sends the client  *)
(* any Reply of a small universe, one at a time.  The replicas are not     *)
(* modelled: the Requests of the client stay in net.  heard keeps the      *)
(* Replies the client has handled since its last invocation began and      *)
(* until it completed.                                                     *)
(***************************************************************************)
EnvResults == {"a", "b"}

EnvViews == {0, 1}

\* the Replies the environment may send to client k
EnvReplies(k) ==
    {Reply(seq, result, view_num, replica_id) :
        seq \in 1..MaxSeq, result \in EnvResults, view_num \in EnvViews,
        replica_id \in 0..(client[k].num_replica - 2)}

\* the environment sends client k a Reply once k has read the last one
InjectReply(k) ==
    /\ ClientRunning(k)
    /\ injected < MaxReply
    /\ \A r \in DOMAIN client_net[client[k].addr] : client_net[client[k].addr][r] = << >>
    /\ \E reply \in EnvReplies(k) :
        client_net' = [client_net EXCEPT ![client[k].addr][reply.replica_id] =
                        Append(@, ToClient(client[k].addr, reply))]
    /\ injected' = injected + 1
    /\ UNCHANGED <<replica, worker, net, client, timers, upcalls, client_result,
                   resends, heard>>
    /\ UNCHANGED non_pbft_vars

\* the history of a step in which client k handles reply
Hears(k, reply) ==
    heard' = IF client[k].invoke = None THEN heard
             ELSE [heard EXCEPT ![k] = Append(@, Heard(reply))]

InitClient ==
    /\ replica = << >>
    /\ worker = << >>
    /\ net = [r \in 0..3 |-> [s \in {FromClient(1)} |-> << >>]]
    /\ client_net = (1 :> [r \in 0..3 |-> << >>])
    /\ client = (1 :> ClientNew(1, 1, 4, 1))
    /\ timers = (1 :> {})
    /\ upcalls = (1 :> << >>)
    /\ client_result = (1 :> "Ok")
    /\ resends = (1 :> 0)
    /\ heard = (1 :> << >>)
    /\ injected = 0
    /\ OnlyPbft

NextClient ==
    \/ \E k \in Clients : InjectReply(k)
    \/ \E k \in Clients :
        client[k].invoke = None /\ Invoke(k) /\ heard' = [heard EXCEPT ![k] = << >>]
    \/ \E k \in Clients : client[k].invoke # None /\ Invoke(k) /\ UNCHANGED heard
    \/ \E k \in Clients : \E r \in DOMAIN client_net[client[k].addr] :
        RecvReplyFrom(k, r) /\ Hears(k, Head(client_net[client[k].addr][r]).reply)
    \/ \E k \in Clients : Resend(k) /\ UNCHANGED heard

SpecClient == InitClient /\ [][NextClient]_vars

(***************************************************************************)
(* Claims about one replica in any environment.                            *)
(***************************************************************************)
\* C4: a slot is Prepared (log[k].prepares is set) only with the prepares of
\* s distinct replica_ids, s + 1 >= n - f, and it is Committed-Local
\* (log[k].commits is set) only with the commits of at least n - f distinct
\* replica_ids, and only when it is Prepared.
C4_QuorumCounting ==
    \A r \in Replicas : \A k \in DOMAIN replica[r].log :
        LET entry == replica[r].log[k]
            quorum == replica[r].num_replica - replica[r].num_faulty
            Distinct(v) ==
                /\ Cardinality(VecIds(v)) = Len(v)
                /\ \A i \in DOMAIN v : v[i][2].plain.replica_id = v[i][1]
        IN  /\ entry.prepares # << >> =>
                Distinct(entry.prepares) /\ Len(entry.prepares) + 1 >= quorum
            /\ entry.commits # << >> =>
                /\ Distinct(entry.commits) /\ Len(entry.commits) >= quorum
                /\ entry.prepares # << >>

\* C4 happens: a slot is Prepared and Committed-Local
C4_Witness ==
    \E r \in Replicas : \E k \in DOMAIN replica[r].log :
        replica[r].log[k].prepares # << >> /\ replica[r].log[k].commits # << >>

\* C5: every Prepare of log[k].prepares and every Commit of log[k].commits
\* carries the digest of log[k].pre_prepare, whatever validly signed messages
\* the replica receives and in whatever order they and their verification
\* results arrive.
C5_SameDigest ==
    \A r \in Replicas : \A k \in DOMAIN replica[r].log :
        LET entry == replica[r].log[k]
        IN  entry.pre_prepare # None =>
                /\ \A i \in DOMAIN entry.prepares :
                    entry.prepares[i][2].plain.digest = entry.pre_prepare.plain.digest
                /\ \A i \in DOMAIN entry.commits :
                    entry.commits[i][2].plain.digest = entry.pre_prepare.plain.digest

\* C5 fails: a Prepare of another digest is stored next to the pre-prepare
C5_Mismatch ==
    \E r \in Replicas : \E k \in DOMAIN replica[r].log :
        LET entry == replica[r].log[k]
        IN  /\ entry.pre_prepare # None
            /\ \E i \in DOMAIN entry.prepares :
                entry.prepares[i][2].plain.digest # entry.pre_prepare.plain.digest

\* the Replies of replica r that are in flight to the client at addr
\* (the address of a client of the model is its client_id)
InFlight(r, addr) ==
    {client_net[addr][r][i].reply : i \in DOMAIN client_net[addr][r]}

\* C7: at every replica and for every client_id the seq of replies[client_id]
\* never decreases, whatever requests the replica receives and executes; it
\* is never less than the seq of a request of the client that the replica
\* has executed and answered.
C7_RepliesSeqMonotone ==
    /\ [](\A r \in Replicas : \A addr \in DOMAIN client_net :
            \A reply \in InFlight(r, addr) :
                /\ addr \in DOMAIN replica[r].replies
                /\ replica[r].replies[addr].seq >= reply.seq)
    /\ [][\A r \in Replicas : \A cid \in DOMAIN replica[r].replies :
            /\ cid \in DOMAIN replica'[r].replies
            /\ replica'[r].replies[cid].seq >= replica[r].replies[cid].seq]_vars

\* C7 happens: a replica has executed a request of a client after a request
\* of that client with a greater seq, and replies[client_id] keeps the greater
C7_Witness ==
    \E r \in Replicas : \E addr \in DOMAIN client_net :
        LET sent == client_net[addr][r]
        IN  /\ Len(sent) >= 2
            /\ sent[1].reply.seq > sent[2].reply.seq
            /\ addr \in DOMAIN replica[r].replies
            /\ replica[r].replies[addr].seq = sent[1].reply.seq

\* the request at the head of the connection from src to r is a duplicate
IsDuplicate(r, src) ==
    LET request == Head(net[r][src]).msg
    IN  /\ request.client_id \in DOMAIN replica[r].replies
        /\ replica[r].replies[request.client_id].seq >= request.seq

\* C8: a replica that receives a Request with a seq <= the seq cached in
\* replies[client_id] leaves op_num, the pending requests, the log and
\* commit_num as they are; when the seq is the cached seq and a Reply is
\* cached, it sends exactly that Reply to request.client_addr.
C8_DuplicateRequest ==
    [][\A r \in Replicas : \A src \in Senders(r) :
        (RecvRequest(r, src) /\ IsDuplicate(r, src)) =>
            LET request == Head(net[r][src]).msg
                cached == replica[r].replies[request.client_id]
            IN  /\ replica'[r].op_num = replica[r].op_num
                /\ replica'[r].requests = replica[r].requests
                /\ replica'[r].log = replica[r].log
                /\ replica'[r].commit_num = replica[r].commit_num
                /\ (cached.seq = request.seq /\ cached.reply # None) =>
                        client_net' = [client_net EXCEPT ![request.client_addr][r] =
                            Append(@, ToClient(request.client_addr, cached.reply))]
      ]_vars

\* C8 happens: a replica has sent its cached Reply a second time
C8_Witness ==
    \E r \in Replicas : \E addr \in DOMAIN client_net :
        LET sent == client_net[addr][r]
        IN  /\ Len(sent) >= 2
            /\ sent[Len(sent)] = sent[Len(sent) - 1]
            /\ addr \in DOMAIN replica[r].replies
            /\ replica[r].replies[addr].reply = sent[Len(sent)].reply

\* the verifications of kind for slot op_num that the crypto worker of r has
\* been given and has not finished, and how many they are
Verifying(r, kind, op_num) ==
    {w \in BagToSet(worker[r]) : w.kind = kind /\ w.msg.plain.op_num = op_num}

NumVerifying(r, kind, op_num) ==
    LET ws == Verifying(r, kind, op_num)
    IN  IF ws = {} THEN 0
        ELSE IF \E w \in ws : ws = {w} /\ CopiesIn(w, worker[r]) = 1 THEN 1
        ELSE 2

\* C20: for every op_num at most one verification of a Prepare and at most
\* one verification of a Commit is outstanding at the crypto worker; a
\* Prepare (a Commit) that the replica receives for the op_num meanwhile is
\* appended to pending_prepares[op_num] (pending_commits[op_num]) and is not
\* submitted.
C20_OneVerificationPerSlot ==
    /\ [](\A r \in Replicas : \A k \in EnvSlots :
            /\ NumVerifying(r, "VerifyPrepare", k) <= 1
            /\ NumVerifying(r, "VerifyCommit", k) <= 1)
    /\ [][\A r \in Replicas : \A src \in Senders(r) :
            LET m == Head(net[r][src]).msg
                k == m.plain.op_num
            IN  /\ (RecvPrepare(r, src) /\ Verifying(r, "VerifyPrepare", k) # {})
                    => /\ k \in DOMAIN replica[r].pending_prepares
                       /\ replica'[r] = [replica[r] EXCEPT
                              !.pending_prepares[k] = Append(@, m)]
                       /\ worker' = worker
                /\ (RecvCommit(r, src) /\ Verifying(r, "VerifyCommit", k) # {})
                    => /\ k \in DOMAIN replica[r].pending_commits
                       /\ replica'[r] = [replica[r] EXCEPT
                              !.pending_commits[k] = Append(@, m)]
                       /\ worker' = worker
      ]_vars

\* C20 happens: a Prepare and a Commit wait in the pending lists of a slot
\* while one Prepare and one Commit of the slot are being verified
C20_Witness ==
    \E r \in Replicas : \E k \in EnvSlots :
        /\ Verifying(r, "VerifyPrepare", k) # {}
        /\ k \in DOMAIN replica[r].pending_prepares
        /\ replica[r].pending_prepares[k] # << >>
        /\ Verifying(r, "VerifyCommit", k) # {}
        /\ k \in DOMAIN replica[r].pending_commits
        /\ replica[r].pending_commits[k] # << >>

\* r has read every message sent to it and its crypto worker has no work left
Quiescent(r) == Senders(r) = {} /\ worker[r] = EmptyBag

\* the state of replica r once it has handled the PrePrepare of batch b for
\* slot k, verified it, and signed and sent its own Prepare
AfterPrePrepare(r, k, b) ==
    LET s0 == ReplicaNew(r, replica[r].num_replica, replica[r].num_faulty)
        pre_prepare == Sign(s0.view_num % s0.num_replica,
                            PrePrepare(s0.view_num, k, Sha256(b)))
        s1 == on_recv_pre_prepare(s0, pre_prepare, b).s
        c2 == on_verified_pre_prepare(s1, pre_prepare, b)
        w == CHOOSE w \in BagToSet(c2.cw) : w.kind = "SignPrepare"
    IN  on_signed_prepare(c2.s, Sign(r, w.msg)).s

\* the states of r that hold nothing of a dropped message
Undropped(r) ==
    {ReplicaNew(r, replica[r].num_replica, replica[r].num_faulty)}
    \cup {AfterPrePrepare(r, k, b) : k \in EnvSlots, b \in EnvBatches}

\* the part of the state of a replica that a dropped message leaves alone
Kept(s) ==
    <<s.log, s.prepare_quorums, s.commit_quorums, s.pending_prepares,
      s.pending_commits, s.op_num, s.commit_num>>

\* C19: a Prepare or a Commit that the replica drops (its signature fails
\* verification, or its digest is not the digest of the pre-prepare of the
\* slot) leaves log, the prepare and commit quorums, pending_prepares,
\* pending_commits, op_num and commit_num as they were before it was
\* received, once its handling and its verification are over: a replica that
\* has received only such messages and at most the PrePrepare of the slot is,
\* whenever it has nothing left to handle, in the state it would be in
\* without them.
C19_DroppedLeavesNoTrace ==
    \A r \in Replicas :
        Quiescent(r) => \E s \in Undropped(r) : Kept(replica[r]) = Kept(s)

\* the same for the messages dropped for their digest alone: no Prepare or
\* Commit with a signature that fails has been submitted for verification
DigestDropsLeaveNoTrace ==
    \A r \in Replicas :
        (/\ Quiescent(r)
         /\ replica[r].pending_prepares = EmptyMap
         /\ replica[r].pending_commits = EmptyMap)
        => \E s \in Undropped(r) : Kept(replica[r]) = Kept(s)

\* C21: log records are written once: for every slot k of a replica, once
\* log[k].pre_prepare is set it never changes, and neither does
\* log[k].requests; once log[k].prepares is non-empty it never changes; once
\* log[k].commits is non-empty it never changes.
C21_LogWrittenOnce ==
    [][\A r \in Replicas : \A k \in DOMAIN replica[r].log :
        LET old == replica[r].log[k] IN
        /\ k \in DOMAIN replica'[r].log
        /\ old.pre_prepare # None =>
                /\ replica'[r].log[k].pre_prepare = old.pre_prepare
                /\ replica'[r].log[k].requests = old.requests
        /\ old.prepares # << >> => replica'[r].log[k].prepares = old.prepares
        /\ old.commits # << >> => replica'[r].log[k].commits = old.commits]_vars

\* C21 happens: the slot holds the pre-prepare of one batch and the replica
\* is about to handle the verified PrePrepare of another batch for the slot
C21_Witness ==
    \E r \in Replicas : \E k \in DOMAIN replica[r].log :
        \E w \in BagToSet(worker[r]) :
            /\ w.kind = "VerifyPrePrepare"
            /\ w.msg.plain.op_num = k
            /\ replica[r].log[k].pre_prepare # None
            /\ w.msg.plain.digest # replica[r].log[k].pre_prepare.plain.digest

\* C24: at the primary op_num - commit_num <= NUM_CONCURRENT_PRE_PREPARE in
\* every reachable state, for any number of pending requests.
C24_OneOpenSlot ==
    \A r \in Replicas :
        is_primary(replica[r]) =>
            replica[r].op_num - replica[r].commit_num <= NUM_CONCURRENT_PRE_PREPARE

\* C23: pending_prepares (pending_commits) has an entry for op_num if and
\* only if the verification of a Prepare (a Commit) of that op_num has been
\* submitted and its result has not been handled yet: no entry remains once
\* no verification for the op_num is outstanding.
C23_PendingIffVerifying ==
    \A r \in Replicas :
        Running(r) =>
            /\ \A k \in EnvSlots :
                    k \in DOMAIN replica[r].pending_prepares
                        <=> Verifying(r, "VerifyPrepare", k) # {}
            /\ \A k \in EnvSlots :
                    k \in DOMAIN replica[r].pending_commits
                        <=> Verifying(r, "VerifyCommit", k) # {}

(***************************************************************************)
(* Claims about one client in any environment.                             *)
(***************************************************************************)
\* the replica_ids whose latest Reply with seq, among the Replies of history,
\* holds result
Voters(history, seq, result) ==
    {history[i].replica_id : i \in
        {i \in DOMAIN history :
            /\ history[i].seq = seq
            /\ history[i].result = result
            /\ \A j \in DOMAIN history :
                (j > i /\ history[j].replica_id = history[i].replica_id) =>
                    history[j].seq # seq}}

\* C6: the client upcalls InvokeOk((id, result)) only for its outstanding
\* invocation, on a Reply with the current seq and that result, and only when
\* f + 1 distinct replica_ids hold that result in their latest Reply with the
\* current seq; Replies with another result or another seq do not count.
C6_ReplyQuorum ==
    [][\A k \in Clients : upcalls'[k] # upcalls[k] =>
        \E r \in DOMAIN client_net[client[k].addr] :
            /\ RecvReplyFrom(k, r)
            /\ LET reply == Head(client_net[client[k].addr][r]).reply
                   history == Append(heard[k], Heard(reply))
               IN  /\ client[k].invoke # None
                   /\ reply.seq = client[k].seq
                   /\ upcalls'[k] = Append(upcalls[k], <<client[k].id, reply.result>>)
                   /\ Cardinality(Voters(history, client[k].seq, reply.result))
                        >= client[k].num_faulty + 1
      ]_vars

\* C6 happens: the client has upcalled a result after it handled a Reply of
\* another seq and a Reply with the current seq and another result
C6_Witness ==
    \E k \in Clients :
        /\ upcalls[k] # << >>
        /\ client[k].invoke = None
        /\ \E i \in DOMAIN heard[k] : heard[k][i].seq # client[k].seq
        /\ \E i \in DOMAIN heard[k] :
            /\ heard[k][i].seq = client[k].seq
            /\ heard[k][i].result # upcalls[k][Len(upcalls[k])][2]

\* C37: each Invoke of the client produces at most one InvokeOk upcall: the
\* upcalls made and the outstanding invocation add up to seq, a Reply step
\* makes at most one upcall and clears the invocation with it, and a Reply
\* with another seq or with no invocation outstanding, as after the upcall,
\* changes nothing of the client and sends nothing.
C37_OneUpcallPerInvoke ==
    [][\A k \in Clients :
        /\ Len(upcalls'[k]) + (IF client'[k].invoke = None THEN 0 ELSE 1) = client'[k].seq
        /\ \A r \in DOMAIN client_net[client[k].addr] :
            RecvReplyFrom(k, r) =>
                LET reply == Head(client_net[client[k].addr][r]).reply IN
                IF reply.seq # client[k].seq \/ client[k].invoke = None
                THEN /\ client'[k] = client[k]
                     /\ timers'[k] = timers[k]
                     /\ upcalls'[k] = upcalls[k]
                     /\ client_result'[k] = "Ok"
                     /\ net' = net
                ELSE /\ Len(upcalls'[k]) <= Len(upcalls[k]) + 1
                     /\ upcalls'[k] # upcalls[k] =>
                            /\ client'[k].invoke = None
                            /\ timers'[k] = {}
                     /\ net' = net
      ]_vars

\* the client has made the upcall of its invocation from two Replies, and
\* has read a third Reply while no invocation was outstanding
C37_Witness ==
    \E k \in Clients :
        /\ Len(upcalls[k]) = 1
        /\ client[k].seq = 1
        /\ client[k].invoke = None
        /\ Len(heard[k]) = 2
        /\ injected >= 3
        /\ \A r \in DOMAIN client_net[client[k].addr] : client_net[client[k].addr][r] = << >>

\* C10: an Invoke while an invocation is outstanding returns the error
\* "concurrent invocation" and leaves seq, the outstanding invoke with its op
\* and its collected replies, and the resend timer as they are, and sends
\* nothing; an Invoke with no outstanding invocation increments seq by 1 and
\* sends the Request to replica view_num mod n, and to no other.
C10_Invoke ==
    [][\A k \in Clients : Invoke(k) =>
        IF client[k].invoke # None
        THEN /\ client_result'[k] = "concurrent invocation"
             /\ client'[k] = client[k]
             /\ timers'[k] = timers[k]
             /\ net' = net
        ELSE LET dest == client[k].view_num % client[k].num_replica
                 request == Request(client[k].id, client[k].addr, client[k].seq + 1,
                                    client'[k].invoke.op)
             IN  /\ client_result'[k] = "Ok"
                 /\ client'[k].seq = client[k].seq + 1
                 /\ net' = [net EXCEPT ![dest][FromClient(k)] =
                            Append(@, ToReplica(dest, "Request", request, << >>))]
      ]_vars

\* C10 happens: a second invocation went to the replica of a later view
\* only, and an Invoke while it was outstanding returned the error
C10_Witness ==
    \E k \in Clients :
        /\ client_result[k] = "concurrent invocation"
        /\ client[k].seq = MaxSeq
        /\ client[k].view_num > 0
        /\ resends[k] = 0
        /\ \E d \in DOMAIN net : d > 0 /\ net[d][FromClient(k)] # << >>

(***************************************************************************)
(* Claims about the closed system.                                         *)
(***************************************************************************)
\* the replica that is primary of the view
Primary == CHOOSE r \in Replicas : is_primary(replica[r])

\* C1: PBFT agreement: for any two correct replicas r, q and any op_num k with
\* 1 <= k <= min(r.commit_num, q.commit_num), r.log[k].requests =
\* q.log[k].requests, in every reachable state.
C1_Agreement ==
    \A r, q \in Replicas :
        \A k \in 1..Min(replica[r].commit_num, replica[q].commit_num) :
            replica[r].log[k].requests = replica[q].log[k].requests

\* the ops of the batch the primary pre-prepared for slot k
BatchOps(k) ==
    LET requests == replica[Primary].log[k].requests
    IN  [i \in DOMAIN requests |-> requests[i].op]

RECURSIVE OpsUpTo(_)
OpsUpTo(k) == IF k = 0 THEN << >> ELSE OpsUpTo(k - 1) \o BatchOps(k)

\* C2: when commit_num of a replica has advanced to k, the replica has
\* executed exactly the requests of the batches the primary pre-prepared for
\* the slots 1..k, each once, in batch order and in increasing op_num order:
\* no slot is passed over with its batch unexecuted.
C2_ExecutesEveryBatch ==
    \A r \in Replicas : replica[r].app = OpsUpTo(replica[r].commit_num)

\* C3: in every reachable state of a replica, a slot with prepares holds a
\* pre-prepare, and a slot with commits holds prepares.
C3_SlotOrder ==
    \A r \in Replicas : \A k \in DOMAIN replica[r].log :
        LET entry == replica[r].log[k]
        IN  /\ entry.prepares # << >> => entry.pre_prepare # None
            /\ entry.commits # << >> => entry.prepares # << >>

\* every message and every crypto result has been delivered and handled: no
\* running replica has an event to handle, no client has a Reply to read
Idle ==
    /\ \A r \in Replicas : ~HasWork(r)
    /\ \A k \in Clients : \A r \in DOMAIN client_net[client[k].addr] :
        client_net[client[k].addr][r] = << >>

\* the client has invoked its first op
Invoked == \A k \in Clients : client[k].seq >= 1

\* the first invocation has completed at the client and at every replica
Completed ==
    /\ \A k \in Clients :
        /\ upcalls[k] # << >>
        /\ upcalls[k][1] = <<k, AppExecute(AppInit, "x").result>>
    /\ \A r \in Replicas :
        /\ 1 \in DOMAIN replica[r].log
        /\ Len(replica[r].log[1].commits) >= 3

\* C9: normal case with n = 4, f = 1 and every replica correct: after the
\* client has invoked op with seq = 1, once every message and every crypto
\* result has been delivered, the client has upcalled InvokeOk with
\* app.execute(op) and every replica holds at least 3 commits in log[1].
C9_NormalCaseCompletes == (Idle /\ Invoked) => Completed

(***************************************************************************)
(* COPS (src/src/cops.rs).                                                 *)
(*                                                                         *)
(* OrdinaryVersion: a map from KeyId to u32.  A u32 is held as its two     *)
(* 16-bit halves <<high, low>>, compared and incremented as the 32-bit     *)
(* number they make.                                                       *)
(***************************************************************************)
Half == 65536

U32(n) == <<n \div Half, n % Half>>

U32Max == <<Half - 1, Half - 1>>

U32Less(n, m) == n[1] < m[1] \/ (n[1] = m[1] /\ n[2] < m[2])

\* u32::max
U32MaxOf(n, m) == IF U32Less(n, m) THEN m ELSE n

\* n + 1 as a build without overflow checks computes it
U32WrappingInc(n) ==
    IF n = U32Max THEN U32(0)
    ELSE IF n[2] = Half - 1 THEN <<n[1] + 1, 0>> ELSE <<n[1], n[2] + 1>>

\* OrdinaryVersion::new / default
OrdinaryVersionNew == << >>

is_genesis(self) == \A id \in DOMAIN self : self[id] = U32(0)

merge_keeps_self(self, other) ==
    [id \in DOMAIN self \cup DOMAIN other |->
        IF id \in DOMAIN self THEN self[id] ELSE other[id]]

merge(self, other) ==
    [id \in DOMAIN self \cup DOMAIN other |->
        IF id \in DOMAIN self /\ id \in DOMAIN other THEN U32MaxOf(self[id], other[id])
        ELSE IF id \in DOMAIN self THEN self[id] ELSE other[id]]

\* others.fold(self.clone(), |version, dep| version.merge(dep))
RECURSIVE fold_merge(_, _)
fold_merge(version, others) ==
    IF others = << >> THEN version
    ELSE fold_merge(merge(version, Head(others)), Tail(others))

\* *updated.0.entry(id).or_default() += 1 overflows
update_overflows(self, others, id) ==
    LET updated == fold_merge(self, others)
    IN  id \in DOMAIN updated /\ updated[id] = U32Max

\* the version a build without overflow checks returns
update(self, others, id) ==
    LET updated == fold_merge(self, others)
        n == IF id \in DOMAIN updated THEN updated[id] ELSE U32(0)
    IN  MapPut(updated, id, U32WrappingInc(n))

ge(clock, other_clock) ==
    \A other_id \in DOMAIN other_clock :
        \/ other_clock[other_id] = U32(0)
        \/ /\ other_id \in DOMAIN clock
           /\ ~U32Less(clock[other_id], other_clock[other_id])

\* Option<Ordering>: "None" when neither is ge the other
partial_cmp(self, other) ==
    IF ge(self, other)
    THEN IF ge(other, self) THEN "Equal" ELSE "Greater"
    ELSE IF ge(other, self) THEN "Less" ELSE "None"

dep_cmp(self, other, id) ==
    IF id \notin DOMAIN self
    THEN IF id \in DOMAIN other THEN "Less" ELSE "Equal"
    ELSE IF id \notin DOMAIN other THEN "Greater"
    ELSE IF U32Less(self[id], other[id]) THEN "Less"
    ELSE IF self[id] = other[id] THEN "Equal" ELSE "Greater"

\* Ordering::is_ge
is_ge(ordering) == ordering \in {"Equal", "Greater"}

deps(self) == DOMAIN self

(***************************************************************************)
(* COPS messages, and the handlers of Client.  A handler is an operator    *)
(* from the state and the event to a record of the new state s, the        *)
(* messages sent, the timers armed, the upcalls made and the result the    *)
(* handler returns.                                                        *)
(***************************************************************************)
Put(key, value, put_deps, client_addr) ==
    [kind |-> "Put", key |-> key, value |-> value, deps |-> put_deps,
     client_addr |-> client_addr]

PutOk(version_deps) == [kind |-> "PutOk", version_deps |-> version_deps]

Get(key, client_addr) == [kind |-> "Get", key |-> key, client_addr |-> client_addr]

GetOk(value, version_deps) ==
    [kind |-> "GetOk", value |-> value, version_deps |-> version_deps]

SyncKey(key, value, version_deps) ==
    [kind |-> "SyncKey", key |-> key, value |-> value, version_deps |-> version_deps]

\* the events with the version service
Update(id, prev, update_deps) == [id |-> id, prev |-> prev, deps |-> update_deps]

UpdateOk(id, version_deps) == [id |-> id, version_deps |-> version_deps]

\* the values of a BTreeMap in ascending key order
MapValues(m) == LET v == MapIntoVec(m) IN [i \in DOMAIN v |-> v[i][2]]

CopsClientNew(addr, replica_addr) ==
    [addr |-> addr, replica_addr |-> replica_addr, deps |-> EmptyMap,
     working_key |-> None]

CopsClientCtx(s, client_timers) ==
    [s |-> s, net |-> << >>, timers |-> client_timers, upcall |-> << >>,
     result |-> "Ok"]

\* Timer::set: a TimerId that is not armed
TimerSet(client_timers) ==
    CHOOSE id \in 1..(Cardinality(client_timers) + 1) : id \notin client_timers

\* op is Read(key) or Update(key, 0, value), its key of the form user<KeyId>
cops_on_invoke(s, client_timers, op) ==
    LET timer_id == TimerSet(client_timers)
        c == [CopsClientCtx(s, client_timers \cup {timer_id}) EXCEPT
                !.s.working_key = [key |-> op.key, timer_id |-> timer_id]]
    IN  IF s.working_key # None THEN [c EXCEPT !.result = "concurrent op"]
        ELSE IF op.kind = "Update"
        THEN [c EXCEPT !.net = <<Put(op.key, op.value, s.deps, s.addr)>>]
        ELSE [c EXCEPT !.net = <<Get(op.key, s.addr)>>]

cops_on_recv_put_ok(s, client_timers, put_ok) ==
    LET c == CopsClientCtx(s, client_timers) IN
    IF s.working_key = None THEN [c EXCEPT !.result = "missing working key"]
    ELSE LET key == s.working_key.key
             c1 == [c EXCEPT !.s.working_key = None]
         IN  IF ~(\A id \in DOMAIN s.deps :
                    partial_cmp(put_ok.version_deps, s.deps[id]) = "Greater")
             THEN c1
             ELSE [c1 EXCEPT !.s.deps = MapPut(EmptyMap, key, put_ok.version_deps),
                             !.timers = @ \ {s.working_key.timer_id},
                             !.upcall = <<[result |-> "Ok"]>>]

get_ok_accepted_any(s, key, get_ok) == TRUE

get_ok_accepted_own_key(s, key, get_ok) ==
    \A id \in DOMAIN s.deps : is_ge(dep_cmp(get_ok.version_deps, s.deps[id], id))

\* the check of a GetOk against the deps of the client
get_ok_accepted(s, key, get_ok) ==
    \A id \in DOMAIN s.deps : is_ge(dep_cmp(get_ok.version_deps, s.deps[id], key))

cops_on_recv_get_ok(s, client_timers, get_ok) ==
    LET c == CopsClientCtx(s, client_timers) IN
    IF s.working_key = None THEN [c EXCEPT !.result = "missing working key"]
    ELSE LET key == s.working_key.key
             c1 == [c EXCEPT !.s.working_key = None]
         IN  IF ~get_ok_accepted(s, key, get_ok)
             THEN c1
             ELSE [c1 EXCEPT !.s.deps = MapPut(@, key, get_ok.version_deps),
                             !.timers = @ \ {s.working_key.timer_id},
                             !.upcall = <<[result |-> "ReadOk", value |-> get_ok.value]>>]

cops_on_invoke_timeout(s, client_timers) ==
    [CopsClientCtx(s, client_timers) EXCEPT !.result = "client timeout"]

(***************************************************************************)
(* The handlers of the COPS Replica.  The effects of a handler are the     *)
(* messages to clients cn, the SyncKeys sent to All net and the Updates    *)
(* sent to the version service vs.                                         *)
(***************************************************************************)
KeyState(value, version_deps) ==
    [value |-> value, version_deps |-> version_deps, pending_puts |-> << >>]

CopsReplicaNew(version_zero) ==
    [store |-> EmptyMap, version_zero |-> version_zero, pending_sync_keys |-> << >>]

\* startup_insert of Insert(user<key>, [value]) for a key that is not in the store
startup_insert(s, key, value) ==
    [s EXCEPT !.store = MapPut(@, key, KeyState(value, s.version_zero))]

CopsCtx(s) == [s |-> s, cn |-> << >>, net |-> << >>, vs |-> << >>, result |-> "Ok"]

\* store.get(id).map(|state| &state.version_deps).unwrap_or(&version_zero)
stored_version(s, id) ==
    IF id \in DOMAIN s.store THEN s.store[id].version_deps ELSE s.version_zero

cops_on_recv_get(s, get) ==
    IF get.key \notin DOMAIN s.store
    THEN [CopsCtx(s) EXCEPT !.result = "missing state for key"]
    ELSE [CopsCtx(s) EXCEPT
            !.cn = <<[dest |-> get.client_addr,
                      message |-> GetOk(s.store[get.key].value,
                                        s.store[get.key].version_deps)]>>]

put_deps_unchecked(s, put) == TRUE

\* the dependency check of a Put
put_deps_satisfied(s, put) ==
    \A id \in DOMAIN put.deps : is_ge(dep_cmp(stored_version(s, id), put.deps[id], id))

put_is_head_or_not(state) == TRUE

\* whether the Put that has entered pending_puts is sent to the version service
put_is_head(state) == Len(state.pending_puts) = 1

cops_on_recv_put(s, put) ==
    IF ~put_deps_satisfied(s, put) THEN CopsCtx(s)
    ELSE LET state0 == IF put.key \in DOMAIN s.store THEN s.store[put.key]
                       ELSE KeyState("", s.version_zero)
             state == [state0 EXCEPT !.pending_puts = Append(@, put)]
             c == CopsCtx([s EXCEPT !.store = MapPut(@, put.key, state)])
         IN  IF put_is_head(state)
             THEN [c EXCEPT !.vs = <<Update(put.key, state.version_deps,
                                            MapValues(put.deps))>>]
             ELSE c

can_sync_any(s, sync_key) == TRUE

can_sync(s, sync_key) ==
    \A id \in deps(sync_key.version_deps) \ {sync_key.key} :
        is_ge(dep_cmp(stored_version(s, id), sync_key.version_deps, id))

sync_is_newer_or_not(sync_key, state) == TRUE

\* whether apply_sync replaces the stored version
sync_is_newer(sync_key, state) ==
    partial_cmp(sync_key.version_deps, state.version_deps) = "Greater"

pending_puts_is_empty_always(state) == TRUE

\* state.pending_puts.is_empty()
pending_puts_is_empty(state) == state.pending_puts = << >>

\* the new state and the result of apply_sync
apply_sync(s, sync_key) ==
    IF sync_key.key \in DOMAIN s.store
    THEN LET state == s.store[sync_key.key] IN
         IF ~pending_puts_is_empty(state)
         THEN [s |-> s, result |-> "conflicting Put across servers"]
         ELSE IF ~sync_is_newer(sync_key, state)
         THEN [s |-> s, result |-> "Ok"]
         ELSE [s |-> [s EXCEPT !.store[sync_key.key].value = sync_key.value,
                               !.store[sync_key.key].version_deps =
                                    sync_key.version_deps],
               result |-> "Ok"]
    ELSE [s |-> [s EXCEPT !.store = MapPut(@, sync_key.key,
                                KeyState(sync_key.value, sync_key.version_deps))],
          result |-> "Ok"]

\* for sync_key in take(&mut self.pending_sync_keys): taken are the SyncKeys
\* still to visit, s.pending_sync_keys those pushed back
RECURSIVE pending_sync_keys_loop(_, _)
pending_sync_keys_loop(s, taken) ==
    IF taken = << >> THEN [s |-> s, result |-> "Ok"]
    ELSE LET sync_key == Head(taken) IN
         IF ~can_sync(s, sync_key)
         THEN pending_sync_keys_loop(
                [s EXCEPT !.pending_sync_keys = Append(@, sync_key)], Tail(taken))
         ELSE LET a == apply_sync(s, sync_key) IN
              IF a.result # "Ok" THEN a
              ELSE pending_sync_keys_loop(a.s, Tail(taken))

cops_on_recv_sync_key(s, sync_key) ==
    IF ~can_sync(s, sync_key)
    THEN CopsCtx([s EXCEPT !.pending_sync_keys = Append(@, sync_key)])
    ELSE LET a == apply_sync(s, sync_key) IN
         IF a.result # "Ok" THEN [CopsCtx(a.s) EXCEPT !.result = a.result]
         ELSE LET l == pending_sync_keys_loop(
                            [a.s EXCEPT !.pending_sync_keys = << >>],
                            a.s.pending_sync_keys)
              IN  [CopsCtx(l.s) EXCEPT !.result = l.result]

pop_back(pending_puts) ==
    [put |-> pending_puts[Len(pending_puts)],
     rest |-> SubSeq(pending_puts, 1, Len(pending_puts) - 1)]

\* state.pending_puts.pop_front() of a queue that is not empty
pop_front(pending_puts) == [put |-> Head(pending_puts), rest |-> Tail(pending_puts)]

cops_on_update_ok(s, update_ok) ==
    IF update_ok.id \notin DOMAIN s.store
    THEN [CopsCtx(s) EXCEPT !.result = "missing put key state"]
    ELSE LET state == s.store[update_ok.id] IN
    IF state.pending_puts = << >>
    THEN [CopsCtx(s) EXCEPT !.result = "missing pending puts"]
    ELSE LET put == pop_front(state.pending_puts).put
             popped == [s EXCEPT !.store[update_ok.id].pending_puts = pop_front(@).rest]
         IN
    IF ~(\A id \in DOMAIN put.deps :
            partial_cmp(update_ok.version_deps, put.deps[id]) = "Greater")
    THEN [CopsCtx(popped) EXCEPT !.result = "ensure: version_deps > dep"]
    ELSE IF partial_cmp(update_ok.version_deps, state.version_deps) # "Greater"
    THEN [CopsCtx(popped) EXCEPT !.result = "ensure: version_deps > state.version_deps"]
    ELSE LET s1 == [popped EXCEPT
                        !.store[update_ok.id].value = put.value,
                        !.store[update_ok.id].version_deps = update_ok.version_deps]
             c == [CopsCtx(s1) EXCEPT
                        !.cn = <<[dest |-> put.client_addr,
                                  message |-> PutOk(update_ok.version_deps)]>>,
                        !.net = <<SyncKey(put.key, put.value, update_ok.version_deps)>>]
             rest == s1.store[update_ok.id].pending_puts
         IN  IF rest # << >>
             THEN [c EXCEPT !.vs = <<Update(update_ok.id, update_ok.version_deps,
                                            MapValues(Head(rest).deps))>>]
             ELSE c

(***************************************************************************)
(* The version service.  A replica hands it an Update; the service answers *)
(* with an UpdateOk event, which the replica handles later.                *)
(***************************************************************************)
\* OrdinaryVersionService::send: the UpdateOk it sends
version_service_send(u) == UpdateOk(u.id, update(u.prev, u.deps, u.id))

RemoveAt(s, i) == SubSeq(s, 1, i - 1) \o SubSeq(s, i + 1, Len(s))

CopsRunning(a) == cops_result[a] = "Ok"

\* the service answers the i-th Update of replica r that it has not answered
ServiceAnswers(r, i) ==
    /\ CopsRunning(r)
    /\ i \in DOMAIN version_service[r]
    /\ version_service' = [version_service EXCEPT ![r] = RemoveAt(@, i)]
    /\ update_oks' = [update_oks EXCEPT
                        ![r] = Append(@, version_service_send(version_service[r][i]))]
    /\ UNCHANGED <<cops_replica, cops_client, cops_net, cops_client_net, cops_timers,
                   cops_upcalls, cops_result, session, cops_injected>>
    /\ UNCHANGED non_cops_vars

\* a build with overflow checks panics where the increment overflows
ServicePanics(r, i) ==
    /\ CopsRunning(r)
    /\ i \in DOMAIN version_service[r]
    /\ LET u == version_service[r][i] IN update_overflows(u.prev, u.deps, u.id)
    /\ version_service' = [version_service EXCEPT ![r] = RemoveAt(@, i)]
    /\ cops_result' = [cops_result EXCEPT ![r] = "panic: attempt to add with overflow"]
    /\ UNCHANGED <<cops_replica, cops_client, cops_net, cops_client_net, update_oks,
                   cops_timers, cops_upcalls, session, cops_injected>>
    /\ UNCHANGED non_cops_vars

(***************************************************************************)
(* The actions of the COPS replicas and clients.  A message in flight to a *)
(* replica or a client is delivered at any time, in any order; the         *)
(* UpdateOk events of a replica are handled in the order they were sent.   *)
(***************************************************************************)
CopsReplicas == DOMAIN cops_replica

CopsClients == DOMAIN cops_client

\* every message of msgs enters the network towards each replica of dests
CopsSend(n, dests, msgs) == [d \in DOMAIN n |-> IF d \in dests THEN n[d] \o msgs ELSE n[d]]

\* the messages of cn enter the network towards their clients; a message to
\* a client that is not modelled leaves the model
CopsSendClients(n, cn) ==
    [d \in DOMAIN n |->
        n[d] \o [i \in 1..Len(SelectSeq(cn, LAMBDA m : m.dest = d)) |->
                    SelectSeq(cn, LAMBDA m : m.dest = d)[i].message]]

\* replica r has handled one event: c holds its new state and its effects
CopsReplicaStep(r, c, net1, oks1) ==
    /\ cops_replica' = [cops_replica EXCEPT ![r] = c.s]
    /\ cops_net' = CopsSend(net1, DOMAIN net1 \ {r}, c.net)
    /\ cops_client_net' = CopsSendClients(cops_client_net, c.cn)
    /\ version_service' = [version_service EXCEPT ![r] = @ \o c.vs]
    /\ update_oks' = oks1
    /\ cops_result' = [cops_result EXCEPT ![r] = c.result]
    /\ UNCHANGED <<cops_client, cops_timers, cops_upcalls, session, cops_injected>>
    /\ UNCHANGED non_cops_vars

\* replica r reads the i-th message in flight to it
CopsReceives(r, i, kind) ==
    /\ CopsRunning(r)
    /\ i \in DOMAIN cops_net[r]
    /\ cops_net[r][i].kind = kind

CopsTake(n, d, i) == [n EXCEPT ![d] = RemoveAt(@, i)]

CopsRecvGet(r, i) ==
    /\ CopsReceives(r, i, "Get")
    /\ CopsReplicaStep(r, cops_on_recv_get(cops_replica[r], cops_net[r][i]),
                       CopsTake(cops_net, r, i), update_oks)

CopsRecvPut(r, i) ==
    /\ CopsReceives(r, i, "Put")
    /\ CopsReplicaStep(r, cops_on_recv_put(cops_replica[r], cops_net[r][i]),
                       CopsTake(cops_net, r, i), update_oks)

CopsRecvSyncKey(r, i) ==
    /\ CopsReceives(r, i, "SyncKey")
    /\ CopsReplicaStep(r, cops_on_recv_sync_key(cops_replica[r], cops_net[r][i]),
                       CopsTake(cops_net, r, i), update_oks)

CopsUpdateOk(r) ==
    /\ CopsRunning(r)
    /\ update_oks[r] # << >>
    /\ CopsReplicaStep(r, cops_on_update_ok(cops_replica[r], Head(update_oks[r])),
                       cops_net, [update_oks EXCEPT ![r] = Tail(@)])

\* client k has handled one event; an invocation that completes enters the
\* history with its key and the kind and the version_deps of the reply
CopsClientStep(k, c, client_net1, reply) ==
    /\ cops_client' = [cops_client EXCEPT ![k] = c.s]
    /\ cops_timers' = [cops_timers EXCEPT ![k] = c.timers]
    /\ cops_upcalls' = [cops_upcalls EXCEPT ![k] = @ \o c.upcall]
    /\ cops_result' = [cops_result EXCEPT ![k] = c.result]
    /\ cops_net' = CopsSend(cops_net, {cops_client[k].replica_addr}, c.net)
    /\ cops_client_net' = client_net1
    /\ session' = IF c.upcall = << >> THEN session
                  ELSE [session EXCEPT
                            ![k] = Append(@, [key |-> cops_client[k].working_key.key,
                                              kind |-> reply.kind,
                                              version_deps |-> reply.version_deps])]
    /\ UNCHANGED <<cops_replica, version_service, update_oks, cops_injected>>
    /\ UNCHANGED non_cops_vars

\* the ops of the workload: Read(user<key>) and Update(user<key>, 0, value)
CopsOps(k) ==
    {[kind |-> "Read", key |-> key] : key \in Keys}
    \cup {[kind |-> "Update", key |-> key,
           value |-> <<k, Len(cops_upcalls[k]) + 1>>] : key \in Keys}

CopsInvoke(k, op) ==
    /\ CopsRunning(k)
    /\ CopsClientStep(k, cops_on_invoke(cops_client[k], cops_timers[k], op),
                      cops_client_net, None)

CopsClientReceives(k, i, kind) ==
    /\ CopsRunning(k)
    /\ i \in DOMAIN cops_client_net[k]
    /\ cops_client_net[k][i].kind = kind

CopsRecvPutOk(k, i) ==
    /\ CopsClientReceives(k, i, "PutOk")
    /\ CopsClientStep(k, cops_on_recv_put_ok(cops_client[k], cops_timers[k],
                                             cops_client_net[k][i]),
                      CopsTake(cops_client_net, k, i), cops_client_net[k][i])

CopsRecvGetOk(k, i) ==
    /\ CopsClientReceives(k, i, "GetOk")
    /\ CopsClientStep(k, cops_on_recv_get_ok(cops_client[k], cops_timers[k],
                                             cops_client_net[k][i]),
                      CopsTake(cops_client_net, k, i), cops_client_net[k][i])

\* a timer of client k fires
CopsInvokeTimeout(k) ==
    /\ CopsRunning(k)
    /\ cops_timers[k] # {}
    /\ CopsClientStep(k, cops_on_invoke_timeout(cops_client[k], cops_timers[k]),
                      cops_client_net, None)

(***************************************************************************)
(* The closed COPS system: two replicas, each with the keys inserted at    *)
(* startup and a close-loop client at each.                                *)
(***************************************************************************)
\* the invocations of one client
MaxOps == 2

CopsSystemInit(at) ==
    LET clients == DOMAIN at
        replicas == {at[k] : k \in clients}
        RECURSIVE inserted(_, _)
        inserted(s, keys) ==
            IF keys = {} THEN s
            ELSE LET key == CHOOSE key \in keys : TRUE
                 IN  inserted(startup_insert(s, key, "0"), keys \ {key})
    IN  /\ cops_replica =
            [r \in replicas |-> inserted(CopsReplicaNew(OrdinaryVersionNew), Keys)]
        /\ cops_client = [k \in clients |-> CopsClientNew(k, at[k])]
        /\ cops_net = [r \in replicas |-> << >>]
        /\ cops_client_net = [k \in clients |-> << >>]
        /\ version_service = [r \in replicas |-> << >>]
        /\ update_oks = [r \in replicas |-> << >>]
        /\ cops_timers = [k \in clients |-> {}]
        /\ cops_upcalls = [k \in clients |-> << >>]
        /\ cops_result = [a \in replicas \cup clients |-> "Ok"]
        /\ session = [k \in clients |-> << >>]
        /\ cops_injected = 0

InitCops == OnlyCops /\ CopsSystemInit("a" :> "r1" @@ "b" :> "r2")

\* the close-loop workload of client k invokes the next op
CopsWorkload(k) ==
    /\ cops_timers[k] = {}
    /\ Len(cops_upcalls[k]) < MaxOps
    /\ \E op \in CopsOps(k) : CopsInvoke(k, op)

NextCops ==
    \/ \E r \in CopsReplicas : \E i \in DOMAIN cops_net[r] : CopsRecvGet(r, i)
    \/ \E r \in CopsReplicas : \E i \in DOMAIN cops_net[r] : CopsRecvPut(r, i)
    \/ \E r \in CopsReplicas : \E i \in DOMAIN cops_net[r] : CopsRecvSyncKey(r, i)
    \/ \E r \in CopsReplicas : \E i \in DOMAIN version_service[r] : ServiceAnswers(r, i)
    \/ \E r \in CopsReplicas : CopsUpdateOk(r)
    \/ \E k \in CopsClients : CopsWorkload(k)
    \/ \E k \in CopsClients : \E i \in DOMAIN cops_client_net[k] : CopsRecvPutOk(k, i)
    \/ \E k \in CopsClients : \E i \in DOMAIN cops_client_net[k] : CopsRecvGetOk(k, i)
    \/ \E k \in CopsClients : CopsInvokeTimeout(k)

SpecCops == InitCops /\ [][NextCops]_vars

(***************************************************************************)
(* One COPS client on its own.  Its environment is the workload, which     *)
(* invokes at any time, the timer, and the network, which sends the client *)
(* any PutOk or GetOk of a small universe of versions, one at a time.      *)
(* The versions are those a replica that starts from the empty             *)
(* version_zero can hold: every counter of a version is at least 1.        *)
(***************************************************************************)
\* how many replies the environment of one client may send it
MaxCopsReply == 4
\* the invocations of this client
MaxSessionOps == 3
\* the largest counter of the versions of these replies
MaxCounter == 2

EnvReplyVersions ==
    UNION {[ks -> {U32(n) : n \in 1..MaxCounter}] : ks \in SUBSET Keys}

EnvCopsReplies ==
    {PutOk(v) : v \in EnvReplyVersions} \cup {GetOk("v", v) : v \in EnvReplyVersions}

InjectCopsReply(k) ==
    /\ CopsRunning(k)
    /\ cops_injected < MaxCopsReply
    /\ cops_client_net[k] = << >>
    /\ \E reply \in EnvCopsReplies :
        cops_client_net' = [cops_client_net EXCEPT ![k] = Append(@, reply)]
    /\ cops_injected' = cops_injected + 1
    /\ UNCHANGED <<cops_replica, cops_client, cops_net, version_service, update_oks,
                   cops_timers, cops_upcalls, cops_result, session>>
    /\ UNCHANGED non_cops_vars

InitCopsClient ==
    /\ OnlyCops
    /\ cops_replica = << >>
    /\ cops_client = ("a" :> CopsClientNew("a", "r1"))
    /\ cops_net = << >>
    /\ cops_client_net = ("a" :> << >>)
    /\ version_service = << >>
    /\ update_oks = << >>
    /\ cops_timers = ("a" :> {})
    /\ cops_upcalls = ("a" :> << >>)
    /\ cops_result = ("a" :> "Ok")
    /\ session = ("a" :> << >>)
    /\ cops_injected = 0

NextCopsClient ==
    \/ \E k \in CopsClients : InjectCopsReply(k)
    \/ \E k \in CopsClients : \E op \in CopsOps(k) :
        Len(cops_upcalls[k]) < MaxSessionOps /\ CopsInvoke(k, op)
    \/ \E k \in CopsClients : \E i \in DOMAIN cops_client_net[k] : CopsRecvPutOk(k, i)
    \/ \E k \in CopsClients : \E i \in DOMAIN cops_client_net[k] : CopsRecvGetOk(k, i)
    \/ \E k \in CopsClients : CopsInvokeTimeout(k)

SpecCopsClient == InitCopsClient /\ [][NextCopsClient]_vars

(***************************************************************************)
(* One COPS replica on its own, with its version service.  Its environment *)
(* is the network: it sends the replica any Get, any Put whose deps name   *)
(* at most one key, and any SyncKey, of the same small universe of         *)
(* versions, one at a time.  The replies to the client stay in flight.     *)
(***************************************************************************)
\* how many messages the environment of one replica may send it
MaxCopsInject == 3

EnvPutDeps ==
    {EmptyMap} \cup {MapPut(EmptyMap, id, v) : id \in Keys, v \in EnvReplyVersions}

EnvCopsMessages ==
    {Get(key, "a") : key \in Keys}
    \cup {Put(key, "p", ds, "a") : key \in Keys, ds \in EnvPutDeps}
    \cup {SyncKey(key, "s", v) : key \in Keys, v \in EnvReplyVersions}

InjectCops(r) ==
    /\ CopsRunning(r)
    /\ cops_injected < MaxCopsInject
    /\ cops_net[r] = << >>
    /\ \E message \in EnvCopsMessages :
        cops_net' = [cops_net EXCEPT ![r] = Append(@, message)]
    /\ cops_injected' = cops_injected + 1
    /\ UNCHANGED <<cops_replica, cops_client, cops_client_net, version_service,
                   update_oks, cops_timers, cops_upcalls, cops_result, session>>
    /\ UNCHANGED non_cops_vars

\* the replica has had the keys of some set inserted at startup
InitCopsReplica ==
    /\ OnlyCops
    /\ \E keys \in SUBSET Keys :
        cops_replica =
            ("r1" :> [CopsReplicaNew(OrdinaryVersionNew) EXCEPT
                        !.store = [key \in keys |-> KeyState("0", OrdinaryVersionNew)]])
    /\ cops_client = << >>
    /\ cops_net = ("r1" :> << >>)
    /\ cops_client_net = ("a" :> << >>)
    /\ version_service = ("r1" :> << >>)
    /\ update_oks = ("r1" :> << >>)
    /\ cops_timers = << >>
    /\ cops_upcalls = << >>
    /\ cops_result = ("r1" :> "Ok")
    /\ session = << >>
    /\ cops_injected = 0

NextCopsReplica ==
    \/ \E r \in CopsReplicas : InjectCops(r)
    \/ \E r \in CopsReplicas : \E i \in DOMAIN cops_net[r] : CopsRecvGet(r, i)
    \/ \E r \in CopsReplicas : \E i \in DOMAIN cops_net[r] : CopsRecvPut(r, i)
    \/ \E r \in CopsReplicas : \E i \in DOMAIN cops_net[r] : CopsRecvSyncKey(r, i)
    \/ \E r \in CopsReplicas : \E i \in DOMAIN version_service[r] : ServiceAnswers(r, i)
    \/ \E r \in CopsReplicas : CopsUpdateOk(r)

SpecCopsReplica == InitCopsReplica /\ [][NextCopsReplica]_vars

(***************************************************************************)
(* One COPS replica whose clients name versions with a counter at          *)
(* u32::MAX in the deps of their Puts.  The version service is the one of  *)
(* either build: without overflow checks it answers with the counter       *)
(* wrapped, with overflow checks it panics.                                *)
(***************************************************************************)
EnvWrapPuts ==
    {Put(key, "p", MapPut(EmptyMap, id, v), "a") :
        key \in Keys, id \in Keys,
        v \in UNION {[ks -> {U32(1), U32Max}] : ks \in SUBSET Keys}}

InjectWrap(r) ==
    /\ CopsRunning(r)
    /\ cops_injected < MaxCopsInject
    /\ cops_net[r] = << >>
    /\ \E message \in EnvWrapPuts :
        cops_net' = [cops_net EXCEPT ![r] = Append(@, message)]
    /\ cops_injected' = cops_injected + 1
    /\ UNCHANGED <<cops_replica, cops_client, cops_client_net, version_service,
                   update_oks, cops_timers, cops_upcalls, cops_result, session>>
    /\ UNCHANGED non_cops_vars

NextCopsWrap ==
    \/ \E r \in CopsReplicas : InjectWrap(r)
    \/ \E r \in CopsReplicas : \E i \in DOMAIN cops_net[r] : CopsRecvPut(r, i)
    \/ \E r \in CopsReplicas : \E i \in DOMAIN version_service[r] : ServiceAnswers(r, i)
    \/ \E r \in CopsReplicas : \E i \in DOMAIN version_service[r] : ServicePanics(r, i)
    \/ \E r \in CopsReplicas : CopsUpdateOk(r)

SpecCopsWrap == InitCopsReplica /\ [][NextCopsWrap]_vars

(***************************************************************************)
(* The version service on its own: it is handed any Update of a small      *)
(* universe of versions.                                                   *)
(***************************************************************************)
\* the counters of the versions the service is handed
EnvCounters == {U32(0), U32(1), U32(2), U32Max}
\* the longest deps of an Update the service is handed
MaxDeps == 2

EnvVersions == UNION {[ks -> EnvCounters] : ks \in SUBSET Keys}

EnvUpdates ==
    {Update(id, prev, ds) :
        id \in Keys, prev \in EnvVersions,
        ds \in UNION {[1..n -> EnvVersions] : n \in 0..MaxDeps}}

InitVersion ==
    /\ OnlyCops
    /\ cops_replica = << >>
    /\ cops_client = << >>
    /\ cops_net = << >>
    /\ cops_client_net = << >>
    /\ \E u \in EnvUpdates : version_service = ("r1" :> <<u>>)
    /\ update_oks = ("r1" :> << >>)
    /\ cops_timers = << >>
    /\ cops_upcalls = << >>
    /\ cops_result = ("r1" :> "Ok")
    /\ session = << >>
    /\ cops_injected = 0

NextVersion ==
    \/ \E r \in DOMAIN version_service : \E i \in DOMAIN version_service[r] :
        ServiceAnswers(r, i)
    \/ \E r \in DOMAIN version_service : \E i \in DOMAIN version_service[r] :
        ServicePanics(r, i)

SpecVersion == InitVersion /\ [][NextVersion]_vars

(***************************************************************************)
(* Claims about versions and the version service.                          *)
(***************************************************************************)
\* the versions of the Updates and UpdateOks of the state
VersionsHere ==
    UNION {{version_service[r][i].prev : i \in DOMAIN version_service[r]}
           \cup UNION {{version_service[r][i].deps[j] :
                            j \in DOMAIN version_service[r][i].deps} :
                        i \in DOMAIN version_service[r]}
           \cup {update_oks[r][i].version_deps : i \in DOMAIN update_oks[r]} :
           r \in DOMAIN version_service}

\* C15: for all versions a and b, a.merge(b) is Equal to or Greater than a and
\* than b under partial_cmp, a.merge(b) = b.merge(a), and a.merge(a) = a.
C15_MergeLaws ==
    \A a \in VersionsHere : \A b \in VersionsHere :
        /\ partial_cmp(merge(a, b), a) \in {"Equal", "Greater"}
        /\ partial_cmp(merge(a, b), b) \in {"Equal", "Greater"}
        /\ merge(a, b) = merge(b, a)
        /\ merge(a, a) = a

\* two versions neither of which is ge the other, whose merge is Greater than both
C15_Witness ==
    \E a \in VersionsHere : \E b \in VersionsHere :
        /\ partial_cmp(a, b) = "None"
        /\ partial_cmp(merge(a, b), a) = "Greater"
        /\ partial_cmp(merge(a, b), b) = "Greater"

\* C14: for every Update{id, prev, deps} the service handles, the version_deps
\* of its UpdateOk is Greater than prev and than every d in deps under
\* partial_cmp, and is the componentwise maximum of prev and the deps with
\* the entry of id incremented by 1.
C14_Dominance ==
    [][\A r \in DOMAIN version_service : \A i \in DOMAIN version_service[r] :
        ServiceAnswers(r, i) =>
            LET u == version_service[r][i]
                ok == update_oks'[r][Len(update_oks'[r])]
                v == ok.version_deps
                all == <<u.prev>> \o u.deps
                has(id) == {j \in DOMAIN all : id \in DOMAIN all[j]}
                \* the largest entry of id among prev and the deps, 0 if none
                top(id) == IF has(id) = {} THEN U32(0)
                           ELSE LET j == CHOOSE j \in has(id) :
                                        \A h \in has(id) :
                                            ~U32Less(all[j][id], all[h][id])
                                IN  all[j][id]
            IN  /\ ok.id = u.id
                /\ partial_cmp(v, u.prev) = "Greater"
                /\ \A j \in DOMAIN u.deps : partial_cmp(v, u.deps[j]) = "Greater"
                /\ DOMAIN v = {u.id} \cup {id \in Keys : has(id) # {}}
                /\ \A id \in DOMAIN v \ {u.id} : v[id] = top(id)
                /\ U32Less(top(u.id), v[u.id])
                /\ v[u.id] = U32WrappingInc(top(u.id))]_vars

(***************************************************************************)
(* Claims about one COPS client session.                                   *)
(***************************************************************************)
\* C11: within one client session, once a Put or Get on key k has completed
\* with version V, every later Get on k that the client accepts returns a
\* version V' with V'.dep_cmp(V, k) >= 0.
C11_SameKey ==
    \A k \in CopsClients : \A j \in DOMAIN session[k] : \A i \in 1..(j - 1) :
        (session[k][j].kind = "GetOk" /\ session[k][i].key = session[k][j].key)
            => is_ge(dep_cmp(session[k][j].version_deps, session[k][i].version_deps,
                             session[k][j].key))

\* a Get on a key completes after a Put on that key and a Put on another key
C11_Witness ==
    \E k \in CopsClients :
        /\ Len(session[k]) >= 3
        /\ session[k][1].kind = "PutOk"
        /\ session[k][2].kind = "PutOk"
        /\ session[k][3].kind = "GetOk"
        /\ session[k][1].key = session[k][3].key
        /\ session[k][2].key # session[k][3].key

\* client k accepts the i-th message in flight to it, a GetOk
AcceptsGetOk(k, i) ==
    /\ CopsRecvGetOk(k, i)
    /\ Len(cops_upcalls'[k]) > Len(cops_upcalls[k])

\* C12 as stated: whenever the client accepts a GetOk with version V', then
\* for every other key k' in its deps, with version V_k',
\* V'.dep_cmp(V_k', k') >= 0.
C12_OtherKeysOnTheirKey ==
    [][\A k \in CopsClients : \A i \in DOMAIN cops_client_net[k] :
        AcceptsGetOk(k, i) =>
            \A id \in DOMAIN cops_client[k].deps \ {cops_client[k].working_key.key} :
                is_ge(dep_cmp(cops_client_net[k][i].version_deps,
                              cops_client[k].deps[id], id))]_vars

\* C12: whenever the client accepts a GetOk for key k with version V', then
\* for every other key k' in its deps, with version V_k',
\* V'.dep_cmp(V_k', k) >= 0: the comparison is on the key of the Get.
C12_OtherKeysOnGetKey ==
    [][\A k \in CopsClients : \A i \in DOMAIN cops_client_net[k] :
        AcceptsGetOk(k, i) =>
            \A id \in DOMAIN cops_client[k].deps \ {cops_client[k].working_key.key} :
                is_ge(dep_cmp(cops_client_net[k][i].version_deps,
                              cops_client[k].deps[id],
                              cops_client[k].working_key.key))]_vars

\* the client has accepted a GetOk for a key while its deps held another key,
\* whose version has a counter for the key of the Get
C12_Witness ==
    \E k \in CopsClients :
        /\ Len(session[k]) >= 2
        /\ session[k][1].key # session[k][2].key
        /\ session[k][2].kind = "GetOk"
        /\ session[k][2].key \in DOMAIN session[k][1].version_deps
        /\ DOMAIN cops_client[k].deps = Keys

(***************************************************************************)
(* Claims about one COPS replica in any environment.                       *)
(***************************************************************************)
\* C13: for every replica and key k, every change of store[k].version_deps,
\* by a Put, an UpdateOk or a SyncKey, replaces it with a version that is
\* Greater under partial_cmp; the key stays in the store.
C13_MonotoneStore ==
    [][\A r \in CopsReplicas : \A key \in DOMAIN cops_replica[r].store :
        /\ key \in DOMAIN cops_replica'[r].store
        /\ \/ cops_replica'[r].store[key].version_deps =
                cops_replica[r].store[key].version_deps
           \/ partial_cmp(cops_replica'[r].store[key].version_deps,
                          cops_replica[r].store[key].version_deps) = "Greater"]_vars

\* a SyncKey has replaced the version that a Put on its key was given
C13_Witness ==
    \E r \in CopsReplicas : \E key \in DOMAIN cops_replica[r].store :
        \E i \in DOMAIN cops_client_net["a"] :
            LET put_ok == cops_client_net["a"][i] IN
            /\ put_ok.kind = "PutOk"
            /\ key \in DOMAIN put_ok.version_deps
            /\ cops_replica[r].store[key].value = "s"
            /\ partial_cmp(cops_replica[r].store[key].version_deps,
                           put_ok.version_deps) = "Greater"

\* the Updates for key that replica r has sent and whose UpdateOk it has not
\* handled: those the service has not answered, and the ids of those it has
OutstandingUpdates(r, key) ==
    [unanswered |-> {i \in DOMAIN version_service[r] : version_service[r][i].id = key},
     answered |-> {i \in DOMAIN update_oks[r] : update_oks[r][i].id = key}]

\* C16: for every replica and key k at most one Update for k is outstanding
\* at the version service, one is outstanding exactly when
\* store[k].pending_puts is non-empty, and it carries the deps of the Put at
\* the head of that queue.
C16_OneUpdatePerKey ==
    \A r \in CopsReplicas : \A key \in Keys :
        LET out == OutstandingUpdates(r, key)
            queue == IF key \in DOMAIN cops_replica[r].store
                     THEN cops_replica[r].store[key].pending_puts ELSE << >>
        IN  /\ Cardinality(out.unanswered) + Cardinality(out.answered) <= 1
            /\ (Cardinality(out.unanswered) + Cardinality(out.answered) = 1)
                    <=> (queue # << >>)
            /\ \A i \in out.unanswered :
                    version_service[r][i].deps = MapValues(Head(queue).deps)

\* a second Put on a key waits in pending_puts behind the one whose Update
\* is outstanding
C16_Witness ==
    \E r \in CopsReplicas : \E key \in DOMAIN cops_replica[r].store :
        /\ Len(cops_replica[r].store[key].pending_puts) = 2
        /\ OutstandingUpdates(r, key).unanswered # {}
        /\ cops_replica[r].store[key].pending_puts[1].deps
                # cops_replica[r].store[key].pending_puts[2].deps

\* the (id, dep) of the deps of put for which the stored version of id, or
\* version_zero for an absent key, is Less than dep by dep_cmp on id
UnsatisfiedDeps(r, put) ==
    {id \in DOMAIN put.deps :
        dep_cmp(IF id \in DOMAIN cops_replica[r].store
                THEN cops_replica[r].store[id].version_deps
                ELSE cops_replica[r].version_zero,
                put.deps[id], id) = "Less"}

\* C18: a Put with some (id, dep) in deps for which
\* store[id].version_deps.dep_cmp(dep, id) < 0 is dropped: the handler returns
\* Ok, the store and every pending_puts queue are unchanged, no Update is
\* submitted and no PutOk is sent.
C18_PutDropped ==
    [][\A r \in CopsReplicas : \A i \in DOMAIN cops_net[r] :
        (CopsRecvPut(r, i) /\ UnsatisfiedDeps(r, cops_net[r][i]) # {}) =>
            /\ cops_result'[r] = "Ok"
            /\ cops_replica'[r] = cops_replica[r]
            /\ version_service' = version_service
            /\ update_oks' = update_oks
            /\ cops_client_net' = cops_client_net]_vars

\* a Put whose dep names a key that is not in the store is in flight to a
\* replica that has a Put pending on the key of that Put
C18_Witness ==
    \E r \in CopsReplicas : \E i \in DOMAIN cops_net[r] :
        LET put == cops_net[r][i] IN
        /\ CopsRunning(r)
        /\ put.kind = "Put"
        /\ \E id \in UnsatisfiedDeps(r, put) : id \notin DOMAIN cops_replica[r].store
        /\ put.key \in DOMAIN cops_replica[r].store
        /\ cops_replica[r].store[put.key].pending_puts # << >>

\* the other keys that the version_deps of sync_key names and whose stored
\* version at replica r, or version_zero for an absent key, is older than
\* sync_key requires
StaleDeps(r, sync_key) ==
    {id \in DOMAIN sync_key.version_deps \ {sync_key.key} :
        dep_cmp(IF id \in DOMAIN cops_replica[r].store
                THEN cops_replica[r].store[id].version_deps
                ELSE cops_replica[r].version_zero,
                sync_key.version_deps, id) = "Less"}

\* the store holds the key of sync_key, and sync_key is not newer than what
\* the store holds: its version is not Greater than the stored one
Reflects(store, sync_key) ==
    /\ sync_key.key \in DOMAIN store
    /\ partial_cmp(sync_key.version_deps, store[sync_key.key].version_deps)
            # "Greater"

C25_DrainedToFixpoint ==
    [][\A r \in CopsReplicas : \A i \in DOMAIN cops_net[r] :
        (/\ CopsRecvSyncKey(r, i)
         /\ can_sync(cops_replica[r], cops_net[r][i])
         /\ cops_result'[r] = "Ok")
        => \A j \in DOMAIN cops_replica'[r].pending_sync_keys :
                ~can_sync(cops_replica'[r], cops_replica'[r].pending_sync_keys[j])
      ]_vars

\* client k drops the reply it handles in this step: it had a working key and
\* the step neither completes the invocation nor fails
CopsClientDrops(k) ==
    /\ cops_client[k].working_key # None
    /\ \E i \in DOMAIN cops_client_net[k] : CopsRecvPutOk(k, i) \/ CopsRecvGetOk(k, i)
    /\ cops_upcalls'[k] = cops_upcalls[k]
    /\ cops_result'[k] = "Ok"

\* C27: a PutOk or GetOk that the client drops because its version check fails
\* leaves the client state unchanged: working_key and its timer stay set and
\* deps is unchanged.
C27_DropLeavesClient ==
    [][\A k \in CopsClients :
        CopsClientDrops(k)
        => /\ cops_client'[k] = cops_client[k]
           /\ cops_timers'[k] = cops_timers[k]
      ]_vars

\* what a drop does leave alone: deps and the armed timers
DropKeepsDepsAndTimer ==
    [][\A k \in CopsClients :
        CopsClientDrops(k)
        => /\ cops_client'[k].deps = cops_client[k].deps
           /\ cops_timers'[k] = cops_timers[k]
      ]_vars

\* the SyncKeys that the handler of the arriving SyncKey m may apply to key
SyncKeysFor(r, m, key) ==
    {x \in {m} \cup {cops_replica[r].pending_sync_keys[j] :
                        j \in DOMAIN cops_replica[r].pending_sync_keys} :
        x.key = key}

\* C26: a SyncKey for key k never modifies store[k] while store[k].pending_puts
\* is non-empty, and apply_sync fails with 'conflicting Put across servers'
\* when it gets that far; with no in-flight local put the entry changes only
\* to the value and version_deps of a SyncKey for k whose version_deps is
\* Greater than the stored one, and an arriving SyncKey that is applicable
\* and Greater does replace it; in every other case store[k] is unchanged.
C26_SyncConflictOrNewer ==
    [][\A r \in CopsReplicas : \A i \in DOMAIN cops_net[r] :
        CopsRecvSyncKey(r, i)
        => LET m == cops_net[r][i]
               s == cops_replica[r]
               t == cops_replica'[r]
           IN  \A key \in DOMAIN s.store :
                 LET state == s.store[key] IN
                 /\ key \in DOMAIN t.store
                 /\ state.pending_puts # << >>
                    => /\ t.store[key] = state
                       /\ (m.key = key /\ can_sync(s, m))
                            => cops_result'[r] = "conflicting Put across servers"
                 /\ t.store[key] # state
                    => \E x \in SyncKeysFor(r, m, key) :
                        /\ t.store[key] = KeyState(x.value, x.version_deps)
                        /\ partial_cmp(x.version_deps, state.version_deps) = "Greater"
                 /\ (/\ state.pending_puts = << >>
                     /\ m.key = key
                     /\ can_sync(s, m)
                     /\ partial_cmp(m.version_deps, state.version_deps) = "Greater")
                    => /\ t.store[key] # state
                       /\ partial_cmp(t.store[key].version_deps, m.version_deps)
                            \in {"Equal", "Greater"}
      ]_vars

\* a SyncKey has met a Put in flight on its key and the replica has failed,
\* the key still holding the Put it waits for
C26_Witness ==
    \E r \in CopsReplicas :
        /\ cops_result[r] = "conflicting Put across servers"
        /\ \E key \in DOMAIN cops_replica[r].store :
            cops_replica[r].store[key].pending_puts # << >>

\* the entry of id with an absent entry read as 0
EntryOrZero(a, id) == IF id \in DOMAIN a THEN a[id] ELSE U32(0)

\* the comparison of two u32
U32Cmp(n, m) == IF U32Less(n, m) THEN "Less" ELSE IF n = m THEN "Equal" ELSE "Greater"

\* C28: dep_cmp treats a missing entry as 0: for all versions a, b and every
\* key id, a.dep_cmp(b, id) is the comparison of the integers a[id] and b[id]
\* with an absent entry read as 0.
C28_DepCmpMissingIsZero ==
    \A a \in VersionsHere : \A b \in VersionsHere : \A id \in Keys :
        dep_cmp(a, b, id) = U32Cmp(EntryOrZero(a, id), EntryOrZero(b, id))

\* the versions of the state that hold no entry with value 0
NoZeroHere == {a \in VersionsHere : \A id \in DOMAIN a : a[id] # U32(0)}

\* dep_cmp is that comparison on the versions that hold no entry with value 0
DepCmpWithoutZeroEntries ==
    \A a \in NoZeroHere : \A b \in NoZeroHere : \A id \in Keys :
        dep_cmp(a, b, id) = U32Cmp(EntryOrZero(a, id), EntryOrZero(b, id))

\* a is below or equal to b under partial_cmp
VersionLe(a, b) == partial_cmp(a, b) \in {"Less", "Equal"}

\* C29: partial_cmp is a partial order over all versions: reflexive,
\* transitive and antisymmetric, a.partial_cmp(b) being Equal exactly when
\* a = b, versions that hold entries with value 0 included.
C29_PartialOrder ==
    \A a \in VersionsHere : \A b \in VersionsHere :
        /\ partial_cmp(a, a) = "Equal"
        /\ (partial_cmp(a, b) = "Equal") <=> (a = b)
        /\ \A c \in VersionsHere :
            (VersionLe(a, b) /\ VersionLe(b, c)) => VersionLe(a, c)

\* partial_cmp is reflexive and transitive, and Less is the converse of Greater
PartialCmpPreorder ==
    \A a \in VersionsHere : \A b \in VersionsHere :
        /\ partial_cmp(a, a) = "Equal"
        /\ (partial_cmp(a, b) = "Less") <=> (partial_cmp(b, a) = "Greater")
        /\ \A c \in VersionsHere :
            (VersionLe(a, b) /\ VersionLe(b, c)) => VersionLe(a, c)

\* the definition in the comment of partial_cmp
merge_cmp(self, other) ==
    LET merged == merge(self, other) IN
    IF merged = self
    THEN IF merged = other THEN "Equal" ELSE "Greater"
    ELSE IF merged = other THEN "Less" ELSE "None"

\* C30: for all versions a and b, partial_cmp returns what the merge-based
\* definition of its comment returns: with m = a.merge(b), Equal if m = a and
\* m = b, Greater if only m = a, Less if only m = b, None otherwise.
C30_PartialCmpIsMergeCmp ==
    \A a \in VersionsHere : \A b \in VersionsHere :
        partial_cmp(a, b) = merge_cmp(a, b)

\* the two definitions agree on the versions that hold no entry with value 0
MergeCmpWithoutZeroEntries ==
    \A a \in NoZeroHere : \A b \in NoZeroHere :
        partial_cmp(a, b) = merge_cmp(a, b)

\* pending_puts of key at a replica in state s
PendingPuts(s, key) == IF key \in DOMAIN s.store THEN s.store[key].pending_puts ELSE << >>

\* the PutOks that this step sends to client d
NewPutOks(d) ==
    SelectSeq(SubSeq(cops_client_net'[d], Len(cops_client_net[d]) + 1,
                     Len(cops_client_net'[d])),
              LAMBDA m : m.kind = "PutOk")

QuorumOf(quorums, k) == IF k \in DOMAIN quorums THEN quorums[k] ELSE EmptyMap

\* the replicas whose vote of quorum carries digest
Matching(quorum, digest) == {q \in DOMAIN quorum : quorum[q].plain.digest = digest}

\* C32: Prepares tallied for slot k before its PrePrepare is installed stay
\* counted when they carry the digest of the PrePrepare (the others are
\* purged), and when the backup's own Prepare is signed the slot becomes
\* Prepared exactly if the quorum with the own Prepare has size + 1 >= n - f;
\* no Prepare of a peer is needed after the PrePrepare.
C32_EarlyPrepares ==
    [][\A r \in Replicas : \A k \in EnvSlots :
        LET s == replica[r]
            t == replica'[r]
            old == QuorumOf(s.prepare_quorums, k)
        IN  /\ \A w \in Unfinished(r) :
                (/\ VerifiedPrePrepare(r, w)
                 /\ w.msg.plain.op_num = k
                 /\ ~Installed(r, k)
                 /\ Installed(r, k)')
                => /\ QuorumOf(t.prepare_quorums, k) =
                        [q \in Matching(old, w.msg.plain.digest) |-> old[q]]
                   /\ t.log[k].pre_prepare = w.msg
                   /\ t.log[k].prepares = << >>
            /\ \A w \in Unfinished(r) :
                (/\ SignedPrepare(r, w)
                 /\ w.msg.op_num = k
                 /\ ~PreparedSlot(r, k))
                => LET tally == DOMAIN old \cup {r} IN
                   /\ PreparedSlot(r, k)'
                        <=> (Cardinality(tally) + 1 >= s.num_replica - s.num_faulty)
                   /\ PreparedSlot(r, k)'
                        => {t.log[k].prepares[i][1] : i \in DOMAIN t.log[k].prepares}
                            = tally
            /\ (Quiescent(r)' /\ Installed(r, k)' /\ ~PreparedSlot(r, k)')
                => LET left == QuorumOf(t.prepare_quorums, k) IN
                   /\ r \in DOMAIN left
                   /\ Matching(left, t.log[k].pre_prepare.plain.digest) = DOMAIN left
                   /\ MapLen(left) + 1 < t.num_replica - t.num_faulty
      ]_vars

\* the backup has become Prepared with its own Prepare and one that it had
\* tallied before the PrePrepare, a Prepare of the other digest purged
C32_Witness ==
    \E r \in Replicas : \E k \in EnvSlots :
        /\ Quiescent(r)
        /\ PreparedSlot(r, k)
        /\ Len(replica[r].log[k].prepares) = 2
        /\ \E i \in DOMAIN replica[r].log[k].prepares :
            replica[r].log[k].prepares[i][1] = r
        /\ \A i \in DOMAIN replica[r].log[k].prepares :
            replica[r].log[k].prepares[i][2].plain.digest
                = replica[r].log[k].pre_prepare.plain.digest

\* C33: n - f Commits tallied for slot k before the slot is Prepared do not
\* commit it; when the slot is Prepared and the replica's own Commit is
\* signed, the slot becomes Committed-Local exactly if the quorum with the own
\* Commit has size >= n - f, and it is executed when contiguous; no Commit of
\* a peer is needed after the slot is Prepared.
C33_EarlyCommits ==
    [][\A r \in Replicas : \A k \in EnvSlots :
        LET s == replica[r]
            t == replica'[r]
            old == QuorumOf(s.commit_quorums, k)
        IN  /\ ~PreparedSlot(r, k)' => ~CommittedSlot(r, k)' /\ t.commit_num < k
            /\ \A w \in Unfinished(r) :
                (/\ VerifiedPrePrepare(r, w)
                 /\ w.msg.plain.op_num = k
                 /\ ~Installed(r, k)
                 /\ Installed(r, k)')
                => QuorumOf(t.commit_quorums, k) =
                        [q \in Matching(old, w.msg.plain.digest) |-> old[q]]
            /\ \A w \in Unfinished(r) :
                (/\ SignedCommit(r, w)
                 /\ w.msg.op_num = k
                 /\ ~CommittedSlot(r, k))
                => LET tally == DOMAIN old \cup {r} IN
                   /\ PreparedSlot(r, k)
                   /\ CommittedSlot(r, k)'
                        <=> (Cardinality(tally) >= s.num_replica - s.num_faulty)
                   /\ CommittedSlot(r, k)'
                        => /\ {t.log[k].commits[i][1] : i \in DOMAIN t.log[k].commits}
                                = tally
                           /\ s.commit_num = k - 1 => t.commit_num >= k
      ]_vars

\* the backup has committed and executed slot 1 with the Commits of its
\* three peers, tallied before the slot was Prepared, and its own
C33_Witness ==
    \E r \in Replicas : \E k \in EnvSlots :
        /\ Quiescent(r)
        /\ CommittedSlot(r, k)
        /\ Len(replica[r].log[k].commits) = 4
        /\ replica[r].commit_num = k

(***************************************************************************)
(* Claims about requests that arrive more than once.                       *)
(***************************************************************************)
RECURSIVE Flatten(_)
Flatten(seqs) == IF seqs = << >> THEN << >> ELSE Head(seqs) \o Flatten(Tail(seqs))

\* the batches replica r holds in the slots 1..k of its log
LoggedBatches(r, k) ==
    [i \in 1..k |-> IF i \in DOMAIN replica[r].log THEN replica[r].log[i].requests
                    ELSE << >>]

\* the batches the primary r has closed and is signing, by op_num
SigningBatches(r) ==
    LET work == {w \in BagToSet(worker[r]) : w.kind = "SignPrePrepare"}
        at(k) == {w \in work : w.msg.op_num = k}
    IN  [k \in 1..replica[r].op_num |->
            IF at(k) = {} THEN << >> ELSE (CHOOSE w \in at(k) : TRUE).requests]

\* no (client_id, seq) occurs twice in requests
NoRequestTwice(requests) ==
    \A i, j \in DOMAIN requests :
        (/\ requests[i].client_id = requests[j].client_id
         /\ requests[i].seq = requests[j].seq) => i = j

AllDelivered ==
    /\ \A q \in Replicas : ~HasWork(q)
    /\ \A k \in Clients : ~ClientHasWork(k)

\* C35: in a run without faults every Request the primary appends to its
\* pending queue is eventually in a batch it has closed: once every message
\* is delivered and every crypto result handled, no Request waits in the
\* pending queue of the primary, and every Request it has accepted is in a
\* closed batch.
C35_PendingEventuallyBatched ==
    \A r \in Replicas :
        (is_primary(replica[r]) /\ Running(r) /\ AllDelivered) =>
            /\ replica[r].requests = << >>
            /\ \A k \in DOMAIN replica[r].replies :
                    \E i \in DOMAIN Flatten(LoggedBatches(r, replica[r].op_num)) :
                        /\ Flatten(LoggedBatches(r, replica[r].op_num))[i].client_id = k
                        /\ Flatten(LoggedBatches(r, replica[r].op_num))[i].seq
                                = replica[r].replies[k].seq

\* a Request waits at the primary while a slot is outstanding
QueuedBehindSlot ==
    \E r \in Replicas :
        /\ is_primary(replica[r])
        /\ Running(r)
        /\ replica[r].requests # << >>
        /\ replica[r].op_num > replica[r].commit_num

\* the Request of the second client was appended to the pending queue while
\* the slot of the first was outstanding, and is now in the batch of slot 2
QueuedThenBatched ==
    \E r \in Replicas :
        /\ is_primary(replica[r])
        /\ Running(r)
        /\ AllDelivered
        /\ replica[r].requests = << >>
        /\ 2 \in DOMAIN replica[r].log
        /\ replica[r].log[1].requests # << >>
        /\ replica[r].log[2].requests # << >>
        /\ replica[r].log[1].requests[1].seq = 1
        /\ replica[r].log[2].requests[1].seq = 1
        /\ replica[r].commit_num >= 2

(***************************************************************************)
(* Claims about the assertions of the replica.                             *)
(***************************************************************************)
\* the assert!() of close_batch, of the handler of the signed pre-prepare, of
\* insert_prepare and insert_commit, and the log[op_num] of the handlers of
\* the signed Prepare and Commit
AssertionFailures ==
    {"assert is_primary", "assert requests not empty", "assert replaced is none",
     "assert prepares is empty", "assert commits is empty", "index out of bounds"}

\* C36: no replica fails an internal assertion or indexes its log out of
\* bounds, whatever validly signed messages of its peers it receives and in
\* whatever order its messages and crypto results arrive.
C36_NoAssertionFails ==
    \A r \in Replicas : replica[r].panic \notin AssertionFailures

\* a replica that has not failed holds a slot that is Prepared and a
\* Prepare for it that was verified after the slot became Prepared
C36_Witness ==
    \E r \in Replicas : \E k \in DOMAIN replica[r].log :
        /\ replica[r].panic = ""
        /\ replica[r].log[k].pre_prepare # None
        /\ replica[r].log[k].prepares # << >>
        /\ k \in DOMAIN replica[r].prepare_quorums
        /\ replica[r].prepare_quorums[k] # EmptyMap

(***************************************************************************)
(* Claims about the Update a replica has submitted.                        *)
(***************************************************************************)
\* the errors of the UpdateOk handler
UpdateOkErrors ==
    {"missing put key state", "missing pending puts",
     "ensure: version_deps > dep", "ensure: version_deps > state.version_deps"}

\* C38: store[id].version_deps is not modified between the submission of an
\* Update for id and the handling of its UpdateOk: the prev of an Update the
\* service has not answered is store[id].version_deps, and an UpdateOk the
\* replica has not handled carries the update of store[id].version_deps with
\* the deps of the Put at the front of pending_puts; and the UpdateOk
\* handler never fails, neither with one of its ensure checks nor with
\* 'missing put key state' or 'missing pending puts'.
C38_PrevIsStoredVersion ==
    \A r \in CopsReplicas :
        /\ cops_result[r] \notin UpdateOkErrors
        /\ \A i \in DOMAIN version_service[r] :
            LET u == version_service[r][i] IN
            /\ u.id \in DOMAIN cops_replica[r].store
            /\ u.prev = cops_replica[r].store[u.id].version_deps
        /\ \A i \in DOMAIN update_oks[r] :
            LET ok == update_oks[r][i] IN
            /\ ok.id \in DOMAIN cops_replica[r].store
            /\ cops_replica[r].store[ok.id].pending_puts # << >>
            /\ ok.version_deps =
                    update(cops_replica[r].store[ok.id].version_deps,
                           MapValues(Head(cops_replica[r].store[ok.id].pending_puts).deps),
                           ok.id)

(***************************************************************************)
(* The Lamport mutex of untrusted_session (src/src/bin/boson/mutex.rs).    *)
(* The session wires lamport_mutex::Processor to the causal net and to the *)
(* Lamport clock; these are modelled after spec.md, sections 4.3 and 4.4.  *)
(* A clock is the pair <<counter, id>> of Processor::new's |id| (0u32, id),*)
(* ordered by counter and then id.  The net loops back: a peer receives    *)
(* what it broadcasts.  A connection delivers in order.                    *)
(***************************************************************************)
\* the peers of the session: Mutex::addrs
MutexPeers == {0, 1, 2}

ClockLess(a, b) == a[1] < b[1] \/ (a[1] = b[1] /\ a[2] < b[2])

ClockMax(a, b) == IF ClockLess(a, b) THEN b ELSE a

\* the clock the causal net stamps the next message of peer id with, after
\* clock and the clocks of deps
LamportUpdate(id, clock, others) ==
    LET counters == {clock[1]} \cup {c[1] : c \in others}
    IN  <<(CHOOSE n \in counters : \A k \in counters : k <= n) + 1, id>>

\* the clock of the causal net after it has delivered a message stamped with
\* other
LamportMerge(id, clock, other) ==
    <<IF clock[1] < other[1] THEN other[1] ELSE clock[1], id>>

MutexMessage(kind, clock, id) == [kind |-> kind, clock |-> clock, id |-> id]

ProcessorNew(id) ==
    [id |-> id,
     clock |-> <<0, id>>,
     latest |-> [q \in MutexPeers |-> <<0, q>>],
     requests |-> {},
     request |-> None,
     granted |-> FALSE,
     locks |-> 0]

MutexCtx(s) == [s |-> s, net |-> << >>, upcall |-> << >>]

\* one message to every peer, the sender included: destination -> message
MutexSendAll(m) == [q \in MutexPeers |-> m]

\* events::Request: bump the clock and broadcast Request(clock, id)
mutex_on_request(s) ==
    LET clock == LamportUpdate(s.id, s.clock, {})
        s1 == [s EXCEPT !.clock = clock, !.request = clock, !.locks = @ + 1]
    IN  [MutexCtx(s1) EXCEPT
            !.net = MutexSendAll(MutexMessage("Request", clock, s.id))]

\* a variant of is_head that does not look at the priority set
is_head_unordered(s) == TRUE

\* the request of the peer is the minimum of the priority set
is_head(s) == \A other \in s.requests : ~ClockLess(other, s.request)

\* a variant of all_acked that is content with one peer
all_acked_by_one(s) ==
    \E q \in MutexPeers : ClockLess(s.request, s.latest[q])

\* the highest clock seen of every peer exceeds the timestamp of the request
all_acked(s) ==
    \A q \in MutexPeers : ClockLess(s.request, s.latest[q])

\* upcall RequestOk if the pending request of the peer can be granted
mutex_check_granted(c) ==
    IF /\ c.s.request # None
       /\ ~c.s.granted
       /\ c.s.request \in c.s.requests
       /\ all_acked(c.s)
       /\ is_head(c.s)
    THEN [c EXCEPT !.s.granted = TRUE,
                   !.upcall = Append(@, [id |-> c.s.id, clock |-> c.s.request])]
    ELSE c

\* the causal net delivers m: merge the clock and note the highest clock of
\* the sender
mutex_deliver(s, m) ==
    [s EXCEPT !.clock = LamportMerge(s.id, @, m.clock),
              !.latest[m.id] = ClockMax(@, m.clock)]

\* a peer's Request: merge the clock, track the request, reply Ack
mutex_on_recv_request(s, m) ==
    LET s1 == mutex_deliver(s, m)
        clock == LamportUpdate(s.id, s1.clock, {})
        s2 == [s1 EXCEPT !.clock = clock, !.requests = @ \cup {m.clock}]
    IN  [MutexCtx(s2) EXCEPT
            !.net = (m.id :> MutexMessage("Ack", clock, s.id))]

\* a peer's Ack: merge the clock, and grant the local request if it can be
mutex_on_recv_ack(s, m) == mutex_check_granted(MutexCtx(mutex_deliver(s, m)))

\* a peer's Release: merge the clock, forget the request of the peer and
\* look at the head again
mutex_on_recv_release(s, m) ==
    LET s1 == mutex_deliver(s, m)
        s2 == [s1 EXCEPT !.requests = {c \in @ : c[2] # m.id \/ ClockLess(m.clock, c)}]
    IN  mutex_check_granted(MutexCtx(s2))

\* events::Release: broadcast Release and remove the own request
mutex_on_release(s) ==
    LET clock == LamportUpdate(s.id, s.clock, {})
        s1 == [s EXCEPT !.clock = clock,
                        !.requests = {c \in @ : c # s.request},
                        !.request = None,
                        !.granted = FALSE]
    IN  [MutexCtx(s1) EXCEPT
            !.net = MutexSendAll(MutexMessage("Release", clock, s.id))]

\* how often the peers ask for the mutex, all together
MaxLocks == 2

RECURSIVE SumLocks(_)
SumLocks(peers) ==
    IF peers = {} THEN 0
    ELSE LET p == CHOOSE p \in peers : TRUE
         IN  mutex_peer[p].locks + SumLocks(peers \ {p})

\* peer p has handled one event; what it sends enters its connections
MutexStep(p, c, net1) ==
    /\ mutex_peer' = [mutex_peer EXCEPT ![p] = c.s]
    /\ mutex_net' =
            [ch \in DOMAIN net1 |->
                IF ch[1] = p /\ ch[2] \in DOMAIN c.net
                THEN Append(net1[ch], c.net[ch[2]])
                ELSE net1[ch]]
    /\ mutex_upcalls' = mutex_upcalls \o c.upcall
    /\ UNCHANGED non_mutex_vars

\* the application asks for the mutex when it neither holds nor awaits it
MutexRequest(p) ==
    /\ mutex_peer[p].request = None
    /\ SumLocks(MutexPeers) < MaxLocks
    /\ MutexStep(p, mutex_on_request(mutex_peer[p]), mutex_net)

\* the application releases the mutex it holds
MutexRelease(p) ==
    /\ mutex_peer[p].granted
    /\ MutexStep(p, mutex_on_release(mutex_peer[p]), mutex_net)

\* p reads the next message of its connection from q
MutexReceives(p, q, kind) ==
    /\ mutex_net[<<q, p>>] # << >>
    /\ Head(mutex_net[<<q, p>>]).kind = kind

MutexTake(p, q) == [mutex_net EXCEPT ![<<q, p>>] = Tail(@)]

MutexRecvRequest(p, q) ==
    /\ MutexReceives(p, q, "Request")
    /\ MutexStep(p, mutex_on_recv_request(mutex_peer[p], Head(mutex_net[<<q, p>>])),
                 MutexTake(p, q))

MutexRecvAck(p, q) ==
    /\ MutexReceives(p, q, "Ack")
    /\ MutexStep(p, mutex_on_recv_ack(mutex_peer[p], Head(mutex_net[<<q, p>>])),
                 MutexTake(p, q))

MutexRecvRelease(p, q) ==
    /\ MutexReceives(p, q, "Release")
    /\ MutexStep(p, mutex_on_recv_release(mutex_peer[p], Head(mutex_net[<<q, p>>])),
                 MutexTake(p, q))

InitMutex ==
    /\ OnlyMutex
    /\ mutex_peer = [p \in MutexPeers |-> ProcessorNew(p)]
    /\ mutex_net = [ch \in MutexPeers \X MutexPeers |-> << >>]
    /\ mutex_upcalls = << >>

NextMutex ==
    \/ \E p \in MutexPeers : MutexRequest(p)
    \/ \E p \in MutexPeers : MutexRelease(p)
    \/ \E p \in MutexPeers : \E q \in MutexPeers : MutexRecvRequest(p, q)
    \/ \E p \in MutexPeers : \E q \in MutexPeers : MutexRecvAck(p, q)
    \/ \E p \in MutexPeers : \E q \in MutexPeers : MutexRecvRelease(p, q)

SpecMutex == InitMutex /\ [][NextMutex]_vars

(***************************************************************************)
(* Claims about the Lamport mutex.                                         *)
(***************************************************************************)
\* the peers that have been granted the mutex and have not released it
Holders == {p \in MutexPeers : mutex_peer[p].granted}

\* C22: with 3 peers at most one peer holds a RequestOk that it has not
\* released; requests are granted in the order of their (clock, id) pairs:
\* no peer is granted while a request with a lower pair waits, and every
\* RequestOk carries a pair above the pairs of the RequestOks before it.
C22_MutualExclusion ==
    /\ Cardinality(Holders) <= 1
    /\ \A p \in Holders : \A q \in MutexPeers :
            mutex_peer[q].request # None =>
                ~ClockLess(mutex_peer[q].request, mutex_peer[p].request)
    /\ \A i \in DOMAIN mutex_upcalls : \A j \in DOMAIN mutex_upcalls :
            i < j => ClockLess(mutex_upcalls[i].clock, mutex_upcalls[j].clock)

\* C22 happens: two peers asked with the same counter, the peer with the
\* lower id was granted first and has released, and the other peer holds
\* the mutex
C22_Witness ==
    /\ Len(mutex_upcalls) >= 2
    /\ mutex_upcalls[1].clock[1] = mutex_upcalls[2].clock[1]
    /\ mutex_upcalls[1].id < mutex_upcalls[2].id
    /\ Holders = {mutex_upcalls[2].id}

(***************************************************************************)
(* The workloads (src/src/workload.rs).  Total passes count calls of       *)
(* next_op on to the workload it wraps; its clones share remain_count and  *)
(* call next_op concurrently, one atomic access at a time.                 *)
(***************************************************************************)
\* the largest count a Total is created with
MaxCount == 3
\* how many times a clone calls next_op
MaxCalls == 2
\* how many clones of the Total there are
NumClones == 3

\* n - 1 on u32, for n > 0
U32Dec(n) ==
    IF n = U32(0) THEN U32Max
    ELSE IF n[2] = 0 THEN <<n[1] - 1, Half - 1>> ELSE <<n[1], n[2] - 1>>

\* the u32 n as a number, for the counts of this model
U32Value(n) == n[1] * Half + n[2]

\* a store in place of the exchange
compare_exchange_weak_store(atomic, current, new) ==
    {[ok |-> TRUE, value |-> atomic, atomic |-> new]}

\* AtomicU32::compare_exchange_weak(current, new, SeqCst, SeqCst): what it
\* may return and leave in the atomic; it may fail though the comparison
\* succeeds
compare_exchange_weak(atomic, current, new) ==
    (IF atomic = current
     THEN {[ok |-> TRUE, value |-> atomic, atomic |-> new]} ELSE {})
    \cup {[ok |-> FALSE, value |-> atomic, atomic |-> atomic]}

Clones == DOMAIN total

\* clone t has done one step of next_op
TotalStep(t, call, atomic) ==
    /\ total' = [total EXCEPT ![t] = call]
    /\ remain_count' = atomic
    /\ UNCHANGED <<total_count, close_loop, close_loop_sent, close_loop_events>>
    /\ UNCHANGED non_workload_vars

\* let mut remain_count = self.remain_count.load(SeqCst)
TotalLoad(t) ==
    /\ total[t].pc = "idle"
    /\ total[t].calls < MaxCalls
    /\ TotalStep(t, [total[t] EXCEPT !.pc = "loop",
                                     !.remain_count = remain_count,
                                     !.calls = @ + 1],
                 remain_count)

\* if remain_count == 0 { return Ok(None) }
TotalReturnsNone(t) ==
    /\ total[t].pc = "loop"
    /\ total[t].remain_count = U32(0)
    /\ TotalStep(t, [total[t] EXCEPT !.pc = "idle", !.nones = @ + 1], remain_count)

\* the match on compare_exchange_weak: break and call the inner next_op, or
\* take the count it returns and loop
TotalExchange(t) ==
    /\ total[t].pc = "loop"
    /\ total[t].remain_count # U32(0)
    /\ \E r \in compare_exchange_weak(remain_count, total[t].remain_count,
                                      U32Dec(total[t].remain_count)) :
        TotalStep(t, IF r.ok
                     THEN [total[t] EXCEPT !.pc = "idle", !.passed = @ + 1]
                     ELSE [total[t] EXCEPT !.remain_count = r.value],
                  r.atomic)

InitTotal ==
    /\ OnlyWorkload
    /\ total_count \in 0..MaxCount
    /\ remain_count = U32(total_count)
    /\ total = [t \in 1..NumClones |->
                    [pc |-> "idle", remain_count |-> U32(0), calls |-> 0,
                     passed |-> 0, nones |-> 0]]
    /\ close_loop = << >>
    /\ close_loop_sent = << >>
    /\ close_loop_events = << >>

NextTotal ==
    \/ \E t \in Clones : TotalLoad(t)
    \/ \E t \in Clones : TotalReturnsNone(t)
    \/ \E t \in Clones : TotalExchange(t)

SpecTotal == InitTotal /\ [][NextTotal]_vars

(***************************************************************************)
(* Claims about Total.                                                     *)
(***************************************************************************)
RECURSIVE SumCalls(_, _)
SumCalls(clones, field) ==
    IF clones = {} THEN 0
    ELSE LET t == CHOOSE t \in clones : TRUE
         IN  total[t][field] + SumCalls(clones \ {t}, field)

\* C39: for clones of a Total created with count c, under any interleaving
\* of their next_op calls, remain_count is c less the calls that have passed
\* through to the inner workload and never wraps below 0, no more than
\* min(c, number of calls) calls pass through, and once every call has
\* returned exactly min(c, number of calls) have passed through and every
\* other call has returned None.
C39_TotalCount ==
    LET passed == SumCalls(Clones, "passed")
        nones == SumCalls(Clones, "nones")
        calls == SumCalls(Clones, "calls")
    IN  /\ remain_count[1] = 0
        /\ U32Value(remain_count) + passed = total_count
        /\ passed <= Min(total_count, calls)
        /\ \A t \in Clones :
            total[t].calls = total[t].passed + total[t].nones
                                + (IF total[t].pc = "loop" THEN 1 ELSE 0)
        /\ (\A t \in Clones : total[t].pc = "idle") =>
            /\ passed = Min(total_count, calls)
            /\ nones = calls - passed

\* every clone has made all its calls, more calls than the count, and each
\* clone has had a call pass through and a call return None
C39_Witness ==
    /\ Clones # {}
    /\ total_count = MaxCount
    /\ \A t \in Clones :
        /\ total[t].pc = "idle"
        /\ total[t].calls = MaxCalls
        /\ total[t].passed >= 1
        /\ total[t].nones >= 1

(***************************************************************************)
(* CloseLoop drives a workload: Init launches it, and every InvokeOk is    *)
(* answered with the next Invoke, or with Stop when the workload has no op *)
(* left.  The workload is a list of ops; the attach of an op is the op.    *)
(* The events arrive in any order: the driver may be launched again, and   *)
(* an InvokeOk may arrive while no invocation is outstanding.  A handler   *)
(* that returns an error ends the session.                                 *)
(***************************************************************************)
\* the longest workload
MaxWorkload == 3
\* how many events the CloseLoop is sent
MaxEvents == 5

\* CloseLoop::new
CloseLoopNew(workload) ==
    [workload |-> workload, workload_attach |-> None, done |-> FALSE, result |-> "Ok"]

\* what a handler leaves: the CloseLoop, the events it has sent, its result
CloseLoopCtx(s) == [s |-> s, sent |-> << >>, result |-> "Ok"]

\* OnEvent<Init> for CloseLoop
close_loop_on_init(s) ==
    IF s.workload = << >>
    THEN [CloseLoopCtx(s) EXCEPT !.result = "not enough op"]
    ELSE
        LET op == Head(s.workload)
            s1 == [s EXCEPT !.workload = Tail(@), !.workload_attach = [attach |-> op]]
        IN  IF s.workload_attach # None
            THEN [CloseLoopCtx(s1) EXCEPT !.result = "duplicated launch"]
            ELSE [CloseLoopCtx(s1) EXCEPT !.sent = <<[kind |-> "Invoke", op |-> op]>>]

\* OnEvent<InvokeOk> for CloseLoop
close_loop_on_invoke_ok(s, result) ==
    IF s.workload_attach = None
    THEN [CloseLoopCtx(s) EXCEPT !.result = "missing workload attach"]
    ELSE
        LET s1 == [s EXCEPT !.workload_attach = None] IN
        IF s1.workload # << >>
        THEN [CloseLoopCtx([s1 EXCEPT !.workload = Tail(@),
                                      !.workload_attach = [attach |-> Head(s1.workload)]])
                EXCEPT !.sent = <<[kind |-> "Invoke", op |-> Head(s1.workload)]>>]
        ELSE IF s1.done
        THEN [CloseLoopCtx(s1) EXCEPT !.result = "panic: assert !replaced"]
        ELSE [CloseLoopCtx([s1 EXCEPT !.done = TRUE])
                EXCEPT !.sent = <<[kind |-> "Stop", op |-> None]>>]

CloseLoopRunning == DOMAIN close_loop # {} /\ close_loop.result = "Ok"

\* the CloseLoop has handled event: c holds its new state and its effects
CloseLoopStep(event, c) ==
    /\ CloseLoopRunning
    /\ Len(close_loop_events) < MaxEvents
    /\ close_loop' = [c.s EXCEPT !.result = c.result]
    /\ close_loop_sent' = close_loop_sent \o c.sent
    /\ close_loop_events' = Append(close_loop_events, [kind |-> event, result |-> c.result])
    /\ UNCHANGED <<remain_count, total_count, total>>
    /\ UNCHANGED non_workload_vars

CloseLoopInit == CloseLoopStep("Init", close_loop_on_init(close_loop))

CloseLoopInvokeOk ==
    \E result \in EnvResults :
        CloseLoopStep("InvokeOk", close_loop_on_invoke_ok(close_loop, result))

InitCloseLoop ==
    /\ OnlyWorkload
    /\ remain_count = << >>
    /\ total_count = 0
    /\ total = << >>
    /\ \E n \in 0..MaxWorkload : \E workload \in [1..n -> Ops \cup {"y"}] :
        close_loop = CloseLoopNew(workload)
    /\ close_loop_sent = << >>
    /\ close_loop_events = << >>

NextCloseLoop ==
    \/ CloseLoopInit
    \/ CloseLoopInvokeOk

SpecCloseLoop == InitCloseLoop /\ [][NextCloseLoop]_vars

(***************************************************************************)
(* Claims about CloseLoop.                                                 *)
(***************************************************************************)
\* how many events of kind are in events
CountKind(events, kind) == Len(SelectSeq(events, LAMBDA e : e.kind = kind))

\* the Invokes sent that no InvokeOk has answered
Outstanding(sent, events) ==
    CountKind(sent, "Invoke")
        - Len(SelectSeq(events, LAMBDA e : e.kind = "InvokeOk" /\ e.result = "Ok"))

\* the event handled in this step
Handles(kind) ==
    /\ Len(close_loop_events') = Len(close_loop_events) + 1
    /\ close_loop_events'[Len(close_loop_events')].kind = kind

\* at most one invocation is outstanding, it is outstanding exactly while the
\* attach is kept; an Invoke is sent only by a launch with no attach kept or
\* by an InvokeOk that finds one, one per step; an InvokeOk that finds none
\* fails; Stop is sent once, with done, and the assert on done holds
OneInvocation ==
    /\ Outstanding(close_loop_sent', close_loop_events') \in {0, 1}
    /\ close_loop'.result = "Ok" =>
        (Outstanding(close_loop_sent', close_loop_events') = 1
            <=> close_loop'.workload_attach # None)
    /\ Len(close_loop_sent') <= Len(close_loop_sent) + 1
    /\ CountKind(close_loop_sent', "Invoke") > CountKind(close_loop_sent, "Invoke") =>
        \/ Handles("Init") /\ close_loop.workload_attach = None
        \/ Handles("InvokeOk") /\ close_loop.workload_attach # None
    /\ (Handles("InvokeOk") /\ close_loop.workload_attach = None) =>
        /\ close_loop'.result = "missing workload attach"
        /\ close_loop_sent' = close_loop_sent
    /\ CountKind(close_loop_sent', "Stop") <= 1
    /\ close_loop'.done <=> CountKind(close_loop_sent', "Stop") = 1
    /\ close_loop.done => close_loop'.done
    /\ close_loop'.result # "panic: assert !replaced"

\* C40 as stated: CloseLoop keeps at most one invocation outstanding, an
\* InvokeOk with none outstanding fails with 'missing workload attach', Stop
\* is sent and done is set at most once and the assert on done never fails,
\* and a second Init while an invocation is outstanding fails with
\* 'duplicated launch'.
C40_DuplicatedLaunch ==
    [][Len(close_loop_events') > Len(close_loop_events) =>
        /\ OneInvocation
        /\ (Handles("Init") /\ close_loop.workload_attach # None) =>
            close_loop'.result = "duplicated launch"
      ]_vars

\* what a second Init does while an invocation is outstanding: it fails with
\* 'duplicated launch' only if the workload has another op, which it takes
\* as the attach, and with 'not enough op' if the workload has none left; it
\* sends nothing either way.  Everything else is as stated.
LaunchFails ==
    [][Len(close_loop_events') > Len(close_loop_events) =>
        /\ OneInvocation
        /\ (Handles("Init") /\ close_loop.workload_attach # None) =>
            /\ close_loop_sent' = close_loop_sent
            /\ IF close_loop.workload = << >>
               THEN /\ close_loop'.result = "not enough op"
                    /\ close_loop'.workload_attach = close_loop.workload_attach
               ELSE /\ close_loop'.result = "duplicated launch"
                    /\ close_loop'.workload_attach = [attach |-> Head(close_loop.workload)]
      ]_vars

\* the last op of the workload is outstanding, after an InvokeOk, and a
\* second Init has failed with 'not enough op'
LaunchWithNoOpLeft ==
    /\ DOMAIN close_loop # {}
    /\ close_loop.result = "not enough op"
    /\ close_loop.workload_attach # None
    /\ CountKind(close_loop_sent, "Invoke") = 2
    /\ CountKind(close_loop_events, "InvokeOk") = 1

====
